---- MODULE Spec2Model ----
(***************************************************************************)
(* A model of the freetype-go TrueType pipeline: the table parser (Parse,  *)
(* Index, Kerning), the glyph loader (GlyphBuf.Load), the bytecode         *)
(* interpreter (Hinter.run) and the Face facade's sub-pixel quantization.  *)
(* Every subsystem has its own specification over its own variables; the   *)
(* variables of the other subsystems stay at their idle values.            *)
(***************************************************************************)
EXTENDS Integers, Naturals, Sequences, FiniteSets, TLC

VARIABLES
    face,      \* the truetype.face built by NewFace (bias/mask fields), or its absence
    glyphOut,  \* what face.Glyph computed from its dot argument
    ttf,       \* the bytes handed to Parse
    parsed,    \* Parse's result: the error kind and the Font
    query,     \* the last Font.Index / Font.Kerning call and its result
    gbuf,      \* the GlyphBuf and the loader's position (frames of load/loadCompound)
    hinter,    \* the Hinter a loader passes to Load (persistent across loads)
    hint,      \* the Hinter that Hinter.run executes on, with run's local variables
    paint,     \* the painter under test, its last Paint call and what it forwarded
    raster,    \* the contour handed to face.drawContour and the calls the rasterizer got
    ctx        \* the freetype.Context: its font, size, dpi, scale and glyph cache

vars == <<face, glyphOut, ttf, parsed, query, gbuf, hinter, hint, paint, raster, ctx>>

(***************************************************************************)
(* Fixed-width integers.  The model checker's integers are themselves      *)
(* 32-bit, so int32 values are held as they are and the operators below    *)
(* compute Go's wrap-around without ever leaving the int32 range.          *)
(***************************************************************************)
Pow2(n) == 2 ^ n

MaxInt32 == 2147483646 + 1

MinInt32 == -2147483646 - 2

\* Go's a + b on int32 values (two's complement wrap-around).
Add32(a, b) ==
    IF a >= 0 /\ b >= 0 /\ b > MaxInt32 - a
    THEN ((a - MaxInt32) - 1) + ((b - MaxInt32) - 1)
    ELSE IF a < 0 /\ b < 0 /\ b < MinInt32 - a
    THEN ((a + MaxInt32) + 1) + ((b + MaxInt32) + 1)
    ELSE a + b

\* Go's -a on an int32 value: the most negative value is its own negation.
Neg32(a) == IF a = MinInt32 THEN MinInt32 ELSE -a

\* Go's a - b on int32 values.
Sub32(a, b) == Add32(a, Neg32(b))

\* The int32 value of an integer that the checker can hold: itself.
Wrap32(x) == x

\* The int16 value of an integer (Go's int16(x) conversion).
Wrap16(x) == ((x + 32768) % 65536) - 32768

\* The int8 value of an integer (Go's int8(x) conversion).
Wrap8(x) == ((x + 128) % 256) - 128

\* The uint16 / uint8 value of an integer.
U16Of(x) == x % 65536

U8Of(x) == x % 256

\* Bitwise AND, OR and XOR of two's complement integers of any sign.
RECURSIVE BitAnd(_, _)
BitAnd(a, b) ==
    IF a = 0 \/ b = 0 THEN 0
    ELSE IF a = -1 THEN b
    ELSE IF b = -1 THEN a
    ELSE (IF (a % 2 = 1) /\ (b % 2 = 1) THEN 1 ELSE 0) + 2 * BitAnd(a \div 2, b \div 2)

RECURSIVE BitOr(_, _)
BitOr(a, b) ==
    IF a = 0 THEN b
    ELSE IF b = 0 THEN a
    ELSE IF a = -1 \/ b = -1 THEN -1
    ELSE (IF (a % 2 = 1) \/ (b % 2 = 1) THEN 1 ELSE 0) + 2 * BitOr(a \div 2, b \div 2)

RECURSIVE BitXor(_, _)
BitXor(a, b) ==
    IF a = 0 THEN b
    ELSE IF b = 0 THEN a
    ELSE IF a = -1 THEN -1 - b
    ELSE IF b = -1 THEN -1 - a
    ELSE (IF (a % 2) # (b % 2) THEN 1 ELSE 0) + 2 * BitXor(a \div 2, b \div 2)

\* Go's x & y, x | y, x ^ y and x &^ y on int32 values.
And32(x, y) == BitAnd(x, y)

Or32(x, y) == BitOr(x, y)

Xor32(x, y) == BitXor(x, y)

AndNot32(x, y) == BitAnd(x, -1 - y)

\* Go's x >> n on a signed integer: the arithmetic shift, rounding down.
Shr(x, n) == x \div Pow2(n)

\* Go's integer division: truncation toward zero.
GoDiv(a, b) ==
    IF (a >= 0) = (b > 0) THEN (IF a >= 0 THEN a ELSE -a) \div (IF b > 0 THEN b ELSE -b)
    ELSE -((IF a >= 0 THEN a ELSE -a) \div (IF b > 0 THEN b ELSE -b))

\* The 0-based element of a Go slice held as a sequence.
At(s, i) == s[i + 1]

\* The Go slice s[lo:hi] of a sequence (0-based, hi exclusive).
Slice(s, lo, hi) == SubSeq(s, lo + 1, hi)

Abs(x) == IF x < 0 THEN -x ELSE x

Max(a, b) == IF a >= b THEN a ELSE b

Min(a, b) == IF a <= b THEN a ELSE b

(***************************************************************************)
(* The Face facade: Options, NewFace and the quantization of face.Glyph.   *)
(***************************************************************************)
\* The largest |d| of the dot coordinates tried around zero.
DotBound == 70

\* How many coordinates are tried next to each end of the int32 range.
EdgeSpan == 34

\* The values of Options.SubPixelsX and Options.SubPixelsY that are tried.
SubPixelChoices == {0, 1, 2, 3, 4, 8, 16, 32, 64, 128}

ValidSubPixels == {1, 2, 4, 8, 16, 32, 64}

DotCoords ==
    (-DotBound .. DotBound) \cup {MaxInt32 - k : k \in 0 .. EdgeSpan}
        \cup {MinInt32 + k : k \in 0 .. EdgeSpan}

\* The dots handed to face.Glyph: X runs over DotCoords, Y over DotCoords too.
Dots ==
    {[X |-> d, Y |-> d] : d \in DotCoords} \cup {[X |-> d, Y |-> -1 - d] : d \in DotCoords}

\* A mutant of subPixels that truncates instead of rounding (no bias).
subPixelsNoBias(q) == [bias |-> 0, mask |-> GoDiv(-64, q)]

\* subPixels: the bias and mask that lead to q sub-pixel locations per pixel.
subPixels(q) == [bias |-> GoDiv(32, q), mask |-> GoDiv(-64, q)]

\* Options.subPixelsX; o.isNil stands for a nil *Options.
subPixelsX(o) ==
    IF ~o.isNil /\ o.SubPixelsX \in ValidSubPixels
    THEN subPixels(o.SubPixelsX)
    ELSE subPixels(4)

\* Options.subPixelsY; the switch and the call read o.SubPixelsX, as the source does.
subPixelsY(o) ==
    IF ~o.isNil /\ o.SubPixelsX \in ValidSubPixels
    THEN subPixels(o.SubPixelsX)
    ELSE subPixels(1)

\* The quantization of one dot coordinate in face.Glyph: (d + bias) & mask in
\* fixed.Int26_6, which is an int32.
Quantize(d, bias, mask) == And32(Add32(d, bias), mask)

NoFace == [made |-> FALSE]

NoGlyphOut == [done |-> FALSE]

FaceIdle == face = NoFace /\ glyphOut = NoGlyphOut

\* NewFace(f, opts): the sub-pixel fields of the new face. opts is kept beside
\* them so that a property can speak of the options the face was made from.
NewFace(opts) ==
    /\ ~face.made
    /\ face' = [made |-> TRUE, opts |-> opts,
                subPixelBiasX |-> subPixelsX(opts).bias,
                subPixelMaskX |-> subPixelsX(opts).mask,
                subPixelBiasY |-> subPixelsY(opts).bias,
                subPixelMaskY |-> subPixelsY(opts).mask]
    /\ UNCHANGED glyphOut

\* face.Glyph(dot, r) up to its call of rasterize: the quantized dot, split into
\* the integer pixel and the fraction that rasterize receives.
FaceGlyph(dot) ==
    /\ face.made
    /\ ~glyphOut.done
    /\ LET dotX == Quantize(dot.X, face.subPixelBiasX, face.subPixelMaskX)
           dotY == Quantize(dot.Y, face.subPixelBiasY, face.subPixelMaskY)
       IN glyphOut' = [done |-> TRUE, dot |-> dot, dotX |-> dotX, dotY |-> dotY,
                       ix |-> Shr(dotX, 6), fx |-> And32(dotX, 63),
                       iy |-> Shr(dotY, 6), fy |-> And32(dotY, 63)]
    /\ UNCHANGED face

\* The Options tried: a nil pointer (its fields are never read) and every pair.
FaceOptions ==
    {[isNil |-> TRUE, SubPixelsX |-> 0, SubPixelsY |-> 0]}
        \cup [isNil : {FALSE}, SubPixelsX : SubPixelChoices, SubPixelsY : SubPixelChoices]

(***************************************************************************)
(* The table reader: byte streams, readTable, the parse* methods, Parse,   *)
(* Font.Index and Font.Kerning.  A byte slice is a sequence of 0 .. 255.   *)
(* A uint32 is held as its two 16-bit halves, because 2^31 and above do    *)
(* not fit the checker's integers.  An index-out-of-range panic of the Go  *)
(* runtime is the error kind "panic".                                      *)
(***************************************************************************)
\* Whether the n bytes at offset off lie inside the slice t.
CanRead(t, off, n) == off >= 0 /\ off + n <= Len(t)

\* data.u16: the big-endian uint16 at offset off.
U16At(t, off) == At(t, off) * 256 + At(t, off + 1)

\* data.u32: the big-endian uint32 at offset off, as its two halves.
U32At(t, off) == [hi |-> U16At(t, off), lo |-> U16At(t, off + 2)]

\* The widths that int has in a build of the package.
IntSizes == {32, 64}

\* An int that holds a converted uint32 is the record of hi and lo that stands
\* for the number hi * 65536 + lo, with lo in 0 .. 65535.
\* int(x) of a uint32 x: the number x where int has 64 bits; where it has 32,
\* x from 2^31 on becomes the negative number x - 2^32.
IntOfU32(u, bits) ==
    [hi |-> IF bits = 32 /\ u.hi >= 32768 THEN u.hi - 65536 ELSE u.hi, lo |-> u.lo]

\* x + y of two such ints; the sum wraps around where int has 32 bits.
IntAdd(x, y, bits) ==
    LET lo == x.lo + y.lo
        hi == x.hi + y.hi + lo \div 65536
    IN [hi |-> IF bits = 32 THEN ((hi + 32768) % 65536) - 32768 ELSE hi,
        lo |-> lo % 65536]

\* x < n and x > n for such an int x and a number n from 0 up to a length.
IntLess(x, n) == x.hi < 0 \/ (x.hi < 32768 /\ x.hi * 65536 + x.lo < n)

IntAbove(x, n) == x.hi >= 32768 \/ (x.hi >= 0 /\ x.hi * 65536 + x.lo > n)

\* The number that x stands for, for an x from 0 up to a length.
IntValue(x) == x.hi * 65536 + x.lo

U32Less(a, b) == a.hi < b.hi \/ (a.hi = b.hi /\ a.lo < b.lo)

NoError == [kind |-> "nil", msg |-> ""]

FormatError(m) == [kind |-> "FormatError", msg |-> m]

UnsupportedError(m) == [kind |-> "UnsupportedError", msg |-> m]

\* A run-time panic (index or slice bounds out of range).
Panic == [kind |-> "panic", msg |-> "index out of range"]

\* readTable: the slice of ttf that a directory entry's offset and length name,
\* in a build whose int has the given number of bits.  The message of an error
\* is held without the number that the code appends to it.
readTable(ttf_, offsetLength, bits) ==
    LET offset == IntOfU32(U32At(offsetLength, 0), bits)
        length == IntOfU32(U32At(offsetLength, 4), bits)
        end == IntAdd(offset, length, bits)
    IN IF IntLess(offset, 0) THEN [err |-> FormatError("offset too large"), t |-> <<>>]
       ELSE IF IntLess(length, 0)
            THEN [err |-> FormatError("length too large"), t |-> <<>>]
       ELSE IF IntLess(end, 0) \/ IntAbove(end, Len(ttf_))
            THEN [err |-> FormatError("offset + length too large"), t |-> <<>>]
       ELSE [err |-> NoError, t |-> Slice(ttf_, IntValue(offset), IntValue(end))]

locaOffsetFormatUnknown == 0

locaOffsetFormatShort == 1

locaOffsetFormatLong == 2

\* The zero Font made by new(Font).
NewFont ==
    [cmap |-> <<>>, glyf |-> <<>>, head |-> <<>>, hhea |-> <<>>, hmtx |-> <<>>,
     kern |-> <<>>, loca |-> <<>>, maxp |-> <<>>, cmapIndexes |-> <<>>, cm |-> <<>>,
     locaOffsetFormat |-> locaOffsetFormatUnknown, nGlyph |-> 0, nHMetric |-> 0, nKern |-> 0, unitsPerEm |-> 0,
     bounds |-> [XMin |-> 0, YMin |-> 0, XMax |-> 0, YMax |-> 0]]

unicodeEncoding == [hi |-> 0, lo |-> 3]

microsoftEncoding == [hi |-> 3, lo |-> 1]

\* The loop of parseCmap over the encoding records, from record i on.
RECURSIVE cmapEncoding(_, _, _, _, _)
cmapEncoding(cmap, nsubtab, i, sel, bits) ==
    IF i >= nsubtab THEN sel
    ELSE LET pidPsid == U32At(cmap, 4 + 8 * i)
             o == IntOfU32(U32At(cmap, 8 + 8 * i), bits)
         IN IF pidPsid = unicodeEncoding THEN [offset |-> o, found |-> TRUE]
            ELSE IF pidPsid = microsoftEncoding
                 THEN cmapEncoding(cmap, nsubtab, i + 1, [offset |-> o, found |-> TRUE],
                                   bits)
            ELSE cmapEncoding(cmap, nsubtab, i + 1, sel, bits)

\* The four segment arrays of a format 4 subtable starting at offset.
cmapSegments(cmap, offset, segCount) ==
    [i \in 1 .. segCount |->
        [end |-> U16At(cmap, offset + 14 + 2 * (i - 1)),
         start |-> U16At(cmap, offset + 16 + 2 * segCount + 2 * (i - 1)),
         delta |-> U16At(cmap, offset + 16 + 4 * segCount + 2 * (i - 1)),
         offset |-> U16At(cmap, offset + 16 + 6 * segCount + 2 * (i - 1))]]

\* Font.parseCmap.  The reads after the chosen subtable's offset are not
\* preceded by a length check: each one panics when the subtable is cut short.
parseCmap(f, bits) ==
    IF Len(f.cmap) < 4 THEN [err |-> FormatError("cmap too short"), f |-> f]
    ELSE LET nsubtab == U16At(f.cmap, 2)
         IN IF Len(f.cmap) < 8 * nsubtab + 4
            THEN [err |-> FormatError("cmap too short"), f |-> f]
            ELSE LET sel == cmapEncoding(f.cmap, nsubtab, 0,
                                         [offset |-> [hi |-> 0, lo |-> 0], found |-> FALSE],
                                         bits)
                     offset == IntValue(sel.offset)
                 IN IF ~sel.found THEN [err |-> UnsupportedError("cmap encoding"), f |-> f]
                    ELSE IF ~IntAbove(sel.offset, 0) \/ IntAbove(sel.offset, Len(f.cmap))
                         THEN [err |-> FormatError("bad cmap offset"), f |-> f]
                    ELSE IF ~CanRead(f.cmap, offset, 2) THEN [err |-> Panic, f |-> f]
                    ELSE IF U16At(f.cmap, offset) # 4
                         THEN [err |-> UnsupportedError("cmap format"), f |-> f]
                    ELSE IF ~CanRead(f.cmap, offset, 6) THEN [err |-> Panic, f |-> f]
                    ELSE IF U16At(f.cmap, offset + 4) # 0
                         THEN [err |-> UnsupportedError("language"), f |-> f]
                    ELSE IF ~CanRead(f.cmap, offset, 8) THEN [err |-> Panic, f |-> f]
                    ELSE LET segCountX2 == U16At(f.cmap, offset + 6)
                             segCount == segCountX2 \div 2
                         IN IF segCountX2 % 2 = 1
                            THEN [err |-> FormatError("bad segCountX2"), f |-> f]
                            ELSE IF ~CanRead(f.cmap, offset, 16 + 8 * segCount)
                                 THEN [err |-> Panic, f |-> f]
                            ELSE [err |-> NoError,
                                  f |-> [f EXCEPT
                                      !.cm = cmapSegments(f.cmap, offset, segCount),
                                      !.cmapIndexes = Slice(f.cmap, offset + 16 + 8 * segCount,
                                                            Len(f.cmap))]]

\* Font.parseHead.
parseHead(f) ==
    IF Len(f.head) # 54 THEN [err |-> FormatError("bad head length"), f |-> f]
    ELSE LET g == [f EXCEPT !.unitsPerEm = U16At(f.head, 18),
                            !.bounds = [XMin |-> Wrap16(U16At(f.head, 36)),
                                        YMin |-> Wrap16(U16At(f.head, 38)),
                                        XMax |-> Wrap16(U16At(f.head, 40)),
                                        YMax |-> Wrap16(U16At(f.head, 42))]]
             i == U16At(f.head, 50)
         IN IF i = 0
            THEN [err |-> NoError, f |-> [g EXCEPT !.locaOffsetFormat = locaOffsetFormatShort]]
            ELSE IF i = 1
            THEN [err |-> NoError, f |-> [g EXCEPT !.locaOffsetFormat = locaOffsetFormatLong]]
            ELSE [err |-> FormatError("bad indexToLocFormat"), f |-> g]

\* Font.parseMaxp.
parseMaxp(f) ==
    IF Len(f.maxp) # 32 THEN [err |-> FormatError("bad maxp length"), f |-> f]
    ELSE [err |-> NoError, f |-> [f EXCEPT !.nGlyph = U16At(f.maxp, 4)]]

\* Font.parseKern.  The number of pairs is checked against the length field of
\* the subtable header, not against len(f.kern).
parseKern(f) ==
    IF Len(f.kern) = 0
    THEN (IF f.nKern # 0 THEN [err |-> FormatError("bad kern table length"), f |-> f]
          ELSE [err |-> NoError, f |-> f])
    ELSE IF Len(f.kern) < 18 THEN [err |-> FormatError("kern data too short"), f |-> f]
    ELSE IF U16At(f.kern, 0) # 0 THEN [err |-> UnsupportedError("kern version"), f |-> f]
    ELSE IF U16At(f.kern, 2) # 1 THEN [err |-> UnsupportedError("kern nTables"), f |-> f]
    ELSE LET length == U16At(f.kern, 6)
             coverage == U16At(f.kern, 8)
             g == [f EXCEPT !.nKern = U16At(f.kern, 10)]
         IN IF coverage # 1 THEN [err |-> UnsupportedError("kern coverage"), f |-> f]
            ELSE IF 6 * g.nKern # length - 14
                 THEN [err |-> FormatError("bad kern table length"), f |-> g]
            ELSE [err |-> NoError, f |-> g]

\* Font.parseHhea.
parseHhea(f) ==
    IF Len(f.hhea) # 36 THEN [err |-> FormatError("bad hhea length"), f |-> f]
    ELSE LET g == [f EXCEPT !.nHMetric = U16At(f.hhea, 34)]
         IN IF 4 * g.nHMetric + 2 * (g.nGlyph - g.nHMetric) # Len(g.hmtx)
            THEN [err |-> FormatError("bad hmtx length"), f |-> g]
            ELSE [err |-> NoError, f |-> g]

\* The table tags that Parse knows, as bytes.
TableTags ==
    [cmap |-> <<99, 109, 97, 112>>, glyf |-> <<103, 108, 121, 102>>,
     head |-> <<104, 101, 97, 100>>, hhea |-> <<104, 104, 101, 97>>,
     hmtx |-> <<104, 109, 116, 120>>, kern |-> <<107, 101, 114, 110>>,
     loca |-> <<108, 111, 99, 97>>, maxp |-> <<109, 97, 120, 112>>]

\* The loop of Parse over the n directory entries, from entry i on: each known
\* tag's slice is assigned, and the first readTable error ends the loop.
RECURSIVE parseDirectory(_, _, _, _, _)
parseDirectory(ttf_, n, i, f, bits) ==
    IF i >= n THEN [err |-> NoError, f |-> f]
    ELSE LET x == 16 * i + 12
             tag == Slice(ttf_, x, x + 4)
             names == {nm \in DOMAIN TableTags : TableTags[nm] = tag}
         IN IF names = {} THEN parseDirectory(ttf_, n, i + 1, f, bits)
            ELSE LET nm == CHOOSE k \in names : TRUE
                     r == readTable(ttf_, Slice(ttf_, x + 8, x + 16), bits)
                 IN IF r.err # NoError THEN [err |-> r.err, f |-> [f EXCEPT ![nm] = <<>>]]
                    ELSE parseDirectory(ttf_, n, i + 1, [f EXCEPT ![nm] = r.t], bits)

\* The parse* calls of Parse in their order; the first error ends the chain.
parseTables(f, bits) ==
    LET h == parseHead(f)
    IN IF h.err # NoError THEN h
       ELSE LET m == parseMaxp(h.f)
            IN IF m.err # NoError THEN m
               ELSE LET c == parseCmap(m.f, bits)
                    IN IF c.err # NoError THEN c
                       ELSE LET k == parseKern(c.f)
                            IN IF k.err # NoError THEN k ELSE parseHhea(k.f)

\* Parse(ttf) in a build whose int has the given number of bits: the error and
\* the Font; isNil tells that the font result is nil.
Parse(ttf_, bits) ==
    IF Len(ttf_) < 12
    THEN [err |-> FormatError("TTF data is too short"), isNil |-> TRUE, font |-> NewFont]
    ELSE IF U32At(ttf_, 0) # [hi |-> 1, lo |-> 0]
         THEN [err |-> FormatError("bad version"), isNil |-> TRUE, font |-> NewFont]
    ELSE LET n == U16At(ttf_, 4)
         IN IF Len(ttf_) < 16 * n + 12
            THEN [err |-> FormatError("TTF data is too short"), isNil |-> TRUE,
                  font |-> NewFont]
            ELSE LET d == parseDirectory(ttf_, n, 0, NewFont, bits)
                     r == IF d.err # NoError THEN d ELSE parseTables(d.f, bits)
                 IN IF r.err # NoError
                    THEN [err |-> r.err, isNil |-> TRUE, font |-> NewFont]
                    ELSE [err |-> NoError, isNil |-> FALSE, font |-> r.f]

\* The loop of Font.Index over the segments, from segment i (0-based) on.
RECURSIVE indexScan(_, _, _)
indexScan(f, c, i) ==
    LET n == Len(f.cm)
    IN IF i >= n THEN [panic |-> FALSE, index |-> 0]
       ELSE LET seg == At(f.cm, i)
            IN IF seg.start <= c /\ c <= seg.end
               THEN IF seg.offset = 0
                    THEN [panic |-> FALSE, index |-> U16Of(c + seg.delta)]
                    ELSE LET offset == seg.offset + 2 * (i - n + (c - seg.start))
                         IN IF ~CanRead(f.cmapIndexes, offset, 2)
                            THEN [panic |-> TRUE, index |-> 0]
                            ELSE [panic |-> FALSE, index |-> U16At(f.cmapIndexes, offset)]
               ELSE indexScan(f, c, i + 1)

\* Font.Index(x): the rune is converted to a uint16 before the search.
Index(f, x) == indexScan(f, U16Of(x), 0)

\* The loop of Font.Kerning: the binary search for the key g in [lo, hi).
RECURSIVE kerningSearch(_, _, _, _)
kerningSearch(f, g, lo, hi) ==
    IF lo >= hi THEN [panic |-> FALSE, kern |-> 0]
    ELSE LET i == (lo + hi) \div 2
         IN IF ~CanRead(f.kern, 18 + 6 * i, 4) THEN [panic |-> TRUE, kern |-> 0]
            ELSE LET ig == U32At(f.kern, 18 + 6 * i)
                 IN IF U32Less(ig, g) THEN kerningSearch(f, g, i + 1, hi)
                    ELSE IF U32Less(g, ig) THEN kerningSearch(f, g, lo, i)
                    ELSE IF ~CanRead(f.kern, 22 + 6 * i, 2) THEN [panic |-> TRUE, kern |-> 0]
                    ELSE [panic |-> FALSE, kern |-> Wrap16(U16At(f.kern, 22 + 6 * i))]

\* Font.Kerning(i0, i1).
Kerning(f, i0, i1) ==
    IF f.nKern = 0 THEN [panic |-> FALSE, kern |-> 0]
    ELSE kerningSearch(f, [hi |-> i0, lo |-> i1], 0, f.nKern)

(***************************************************************************)
(* The TTF files handed to Parse: a directory followed by the tables, each *)
(* table in several well-formed and malformed variants.                    *)
(***************************************************************************)
Be16(x) == <<(x \div 256) % 256, x % 256>>

Be32(x) == Be16(x \div 65536) \o Be16(x % 65536)

Zeros(n) == [i \in 1 .. n |-> 0]

RECURSIVE Flatten(_)
Flatten(ss) == IF ss = <<>> THEN <<>> ELSE Head(ss) \o Flatten(Tail(ss))

\* A 'head' table: unitsPerEm at 18, the bounds at 36, indexToLocFormat at 50.
HeadTable(unitsPerEm, indexToLocFormat) ==
    Zeros(18) \o Be16(unitsPerEm) \o Zeros(16) \o Be16(-2) \o Be16(-3) \o Be16(40)
        \o Be16(50) \o Zeros(6) \o Be16(indexToLocFormat) \o Zeros(2)

\* A 'maxp' table: numGlyphs at 4.
MaxpTable(nGlyph) == Zeros(4) \o Be16(nGlyph) \o Zeros(26)

\* An 'hhea' table: numberOfHMetrics at 34.
HheaTable(nHMetric) == Zeros(34) \o Be16(nHMetric)

\* A format 4 subtable from its segments and glyph index array; segCountX2 is
\* given apart so that it can disagree with the segments present.
Format4(format, language, segCountX2, segs, glyphIds) ==
    Be16(format) \o Be16(0) \o Be16(language) \o Be16(segCountX2) \o Zeros(6)
        \o Flatten([i \in 1 .. Len(segs) |-> Be16(segs[i].end)]) \o Zeros(2)
        \o Flatten([i \in 1 .. Len(segs) |-> Be16(segs[i].start)])
        \o Flatten([i \in 1 .. Len(segs) |-> Be16(segs[i].delta)])
        \o Flatten([i \in 1 .. Len(segs) |-> Be16(segs[i].offset)])
        \o Flatten([i \in 1 .. Len(glyphIds) |-> Be16(glyphIds[i])])

\* A 'cmap' table: the encoding records (platform, specific, offset) and the
\* bytes that follow them.
CmapTable(encs, rest) ==
    Be16(0) \o Be16(Len(encs))
        \o Flatten([i \in 1 .. Len(encs) |->
                      Be16(encs[i].pid) \o Be16(encs[i].psid) \o Be32(encs[i].offset)])
        \o rest

\* Three segments: A..C by delta, a..b through the glyph index array, and the
\* closing segment 0xFFFF.
GoodSegments ==
    <<[end |-> 67, start |-> 65, delta |-> 65536 - 64, offset |-> 0],
      [end |-> 98, start |-> 97, delta |-> 0, offset |-> 4],
      [end |-> 65535, start |-> 65535, delta |-> 1, offset |-> 0]>>

GoodFormat4 == Format4(4, 0, 6, GoodSegments, <<5, 6>>)

\* The cmap tables tried.
CmapVariants ==
    <<CmapTable(<<[pid |-> 0, psid |-> 3, offset |-> 12]>>, GoodFormat4),
      CmapTable(<<[pid |-> 3, psid |-> 1, offset |-> 12]>>, GoodFormat4),
      CmapTable(<<[pid |-> 3, psid |-> 1, offset |-> 1], [pid |-> 1, psid |-> 0, offset |-> 2],
                  [pid |-> 0, psid |-> 3, offset |-> 36], [pid |-> 3, psid |-> 1, offset |-> 3]>>,
                GoodFormat4),
      CmapTable(<<[pid |-> 1, psid |-> 0, offset |-> 12]>>, GoodFormat4),
      CmapTable(<<[pid |-> 0, psid |-> 3, offset |-> 0]>>, GoodFormat4),
      CmapTable(<<[pid |-> 0, psid |-> 3, offset |-> 12 + Len(GoodFormat4)]>>, GoodFormat4),
      CmapTable(<<[pid |-> 0, psid |-> 3, offset |-> 13 + Len(GoodFormat4)]>>, GoodFormat4),
      CmapTable(<<[pid |-> 0, psid |-> 3, offset |-> 12]>>, Slice(GoodFormat4, 0, 30)),
      CmapTable(<<[pid |-> 0, psid |-> 3, offset |-> 12]>>, Slice(GoodFormat4, 0, 7)),
      CmapTable(<<[pid |-> 0, psid |-> 3, offset |-> 12]>>, Slice(GoodFormat4, 0, 5)),
      CmapTable(<<[pid |-> 0, psid |-> 3, offset |-> 12]>>, Format4(6, 0, 6, GoodSegments, <<>>)),
      CmapTable(<<[pid |-> 0, psid |-> 3, offset |-> 12]>>, Format4(4, 1, 6, GoodSegments, <<>>)),
      CmapTable(<<[pid |-> 0, psid |-> 3, offset |-> 12]>>, Format4(4, 0, 5, GoodSegments, <<>>)),
      CmapTable(<<[pid |-> 0, psid |-> 3, offset |-> 12]>>, Format4(4, 0, 6, GoodSegments, <<5>>)),
      Be16(0) \o Be16(3) \o Zeros(8),
      Be16(0) \o Be16(1) \o Be16(0) \o Be16(3) \o <<128, 0, 0, 12>> \o GoodFormat4,
      <<0, 0>>,
      <<>>>>

\* A 'kern' table: the two headers (version, nTables; version, length,
\* coverage, nPairs, three search fields) and the pairs.
KernTable(version, nTables, length, coverage, nPairs, pairs) ==
    Be16(version) \o Be16(nTables) \o Be16(0) \o Be16(length) \o Be16(coverage)
        \o Be16(nPairs) \o Zeros(6)
        \o Flatten([i \in 1 .. Len(pairs) |->
                      Be16(pairs[i].i0) \o Be16(pairs[i].i1) \o Be16(pairs[i].v)])

SortedPairs ==
    <<[i0 |-> 0, i1 |-> 2, v |-> 7], [i0 |-> 1, i1 |-> 0, v |-> -3],
      [i0 |-> 1, i1 |-> 2, v |-> -144], [i0 |-> 2, i1 |-> 1, v |-> 10],
      [i0 |-> 40000, i1 |-> 1, v |-> 20]>>

\* The kern tables tried.
KernVariants ==
    <<<<>>,
      KernTable(0, 1, 44, 1, 5, SortedPairs),
      KernTable(0, 1, 20, 1, 1, <<[i0 |-> 1, i1 |-> 2, v |-> 9]>>),
      KernTable(0, 1, 14, 1, 0, <<>>),
      KernTable(0, 1, 20, 1, 1, <<>>),
      KernTable(0, 1, 32, 1, 3, <<[i0 |-> 0, i1 |-> 2, v |-> 7], [i0 |-> 1, i1 |-> 0, v |-> 1]>>),
      KernTable(0, 1, 26, 1, 2, <<[i0 |-> 1, i1 |-> 2, v |-> 9]>>) \o Be16(2) \o Be16(1),
      KernTable(0, 1, 26, 1, 2, <<[i0 |-> 2, i1 |-> 1, v |-> 9], [i0 |-> 1, i1 |-> 2, v |-> 4]>>),
      KernTable(1, 1, 20, 1, 1, <<[i0 |-> 1, i1 |-> 2, v |-> 9]>>),
      KernTable(0, 2, 20, 1, 1, <<[i0 |-> 1, i1 |-> 2, v |-> 9]>>),
      KernTable(0, 1, 20, 0, 1, <<[i0 |-> 1, i1 |-> 2, v |-> 9]>>),
      KernTable(0, 1, 21, 1, 1, <<[i0 |-> 1, i1 |-> 2, v |-> 9]>>),
      Zeros(10)>>

\* The offset of table k in a file of the tables tabs behind n directory entries.
RECURSIVE TableOffset(_, _, _)
TableOffset(tabs, n, k) ==
    IF k = 1 THEN 12 + 16 * n ELSE TableOffset(tabs, n, k - 1) + Len(tabs[k - 1].data)

\* A TTF file: version 1.0, the table count, the directory (tag, checksum,
\* offset, length) and the tables.  extra is added to each length field.
MakeTTF(tabs, extra) ==
    <<0, 1, 0, 0>> \o Be16(Len(tabs)) \o Zeros(6)
        \o Flatten([k \in 1 .. Len(tabs) |->
                      tabs[k].tag \o Zeros(4) \o Be32(TableOffset(tabs, Len(tabs), k))
                          \o Be32(Len(tabs[k].data) + extra)])
        \o Flatten([k \in 1 .. Len(tabs) |-> tabs[k].data])

\* The tables of a font of three glyphs, two of them with full metrics.
FontTables(head_, maxp_, hhea_, hmtx_, cmap_, kern_) ==
    <<[tag |-> TableTags.head, data |-> head_], [tag |-> TableTags.maxp, data |-> maxp_],
      [tag |-> TableTags.hhea, data |-> hhea_], [tag |-> TableTags.hmtx, data |-> hmtx_],
      [tag |-> <<79, 83, 47, 50>>, data |-> Zeros(4)],
      [tag |-> TableTags.cmap, data |-> cmap_], [tag |-> TableTags.kern, data |-> kern_]>>

GoodFontTables(cmap_, kern_) ==
    FontTables(HeadTable(2048, 0), MaxpTable(3), HheaTable(2), Zeros(10), cmap_, kern_)

\* The files tried: every cmap with every kern table in an otherwise good
\* font, and files that are malformed in the directory or in another table.
FontFiles ==
    {MakeTTF(GoodFontTables(CmapVariants[c], KernVariants[k]), 0) :
        c \in DOMAIN CmapVariants, k \in DOMAIN KernVariants}
    \cup {MakeTTF(FontTables(h, m, hh, hm, CmapVariants[1], KernVariants[2]), 0) :
            h \in {HeadTable(2048, 1), HeadTable(64, 2), Zeros(53)},
            m \in {MaxpTable(3), Zeros(6)},
            hh \in {HheaTable(2), HheaTable(3), Zeros(35)},
            hm \in {Zeros(10), Zeros(12)}}
    \cup {MakeTTF(GoodFontTables(CmapVariants[1], KernVariants[2]), 1),
          MakeTTF(<<>>, 0),
          MakeTTF(<<[tag |-> TableTags.head, data |-> HeadTable(2048, 0)],
                    [tag |-> TableTags.head, data |-> Zeros(2)]>>, 0),
          Slice(MakeTTF(GoodFontTables(CmapVariants[1], KernVariants[1]), 0), 0, 100),
          <<0, 1, 0, 0>> \o Be16(1) \o Zeros(6) \o TableTags.glyf \o Zeros(4)
              \o <<128, 0, 0, 0>> \o Be32(0),
          <<0, 1, 0, 0>> \o Be16(1) \o Zeros(6) \o TableTags.loca \o Zeros(4)
              \o Be32(0) \o <<255, 255, 255, 255>>,
          <<0, 1, 0, 0>> \o Be16(1) \o Zeros(6) \o TableTags.hmtx \o Zeros(4)
              \o Be32(0) \o <<127, 255, 255, 255>>,
          <<0, 1, 0, 0>> \o Be16(1) \o Zeros(6) \o TableTags.hmtx \o Zeros(4)
              \o <<127, 255, 255, 255>> \o Be32(0),
          <<0, 1, 0, 0>> \o Be16(1) \o Zeros(6) \o TableTags.hmtx \o Zeros(4)
              \o <<127, 255, 255, 255>> \o Be32(1),
          <<0, 1, 0, 0>> \o Be16(1) \o Zeros(6) \o TableTags.hmtx \o Zeros(4)
              \o <<255, 255, 255, 255>> \o Be32(29),
          <<0, 1, 0, 0>> \o Be16(1) \o Zeros(6) \o TableTags.hmtx \o Zeros(4)
              \o <<128, 0, 0, 0>> \o <<128, 0, 0, 28>>,
          <<0, 1, 0, 0>> \o Be16(1) \o Zeros(6) \o TableTags.loca \o Zeros(4)
              \o Be32(29) \o Be32(0),
          <<0, 1, 0, 0>> \o Be16(1) \o Zeros(6) \o TableTags.loca \o Zeros(4)
              \o Be32(28) \o Be32(0),
          <<0, 1, 0, 1>> \o Zeros(8),
          <<0, 1, 0, 0>> \o Zeros(7),
          <<>>}

\* The runes handed to Index: inside and outside the segments, negative, and
\* above U+FFFF.
Runes == {0, 64, 65, 67, 68, 97, 98, 65535, 65536, 65601, 65633, 131071, 128576, -1}

\* The glyph indices handed to Kerning.
KernIndices == {0, 1, 2, 3, 40000, 65535}

ParsedIdle == [status |-> "idle"]

NoQuery == [kind |-> "none"]

\* Parse(t) is called in a build whose int has the given number of bits; the
\* file, the width and the result are kept.
ParseFile(t, bits) ==
    /\ parsed = ParsedIdle
    /\ ttf' = t
    /\ parsed' = [status |-> "done", intSize |-> bits] @@ Parse(t, bits)
    /\ UNCHANGED query

\* f.Index(x) is called on the parsed font.
CallIndex(x) ==
    /\ parsed # ParsedIdle /\ ~parsed.isNil
    /\ query' = [kind |-> "Index", x |-> x] @@ Index(parsed.font, x)
    /\ UNCHANGED <<ttf, parsed>>

\* f.Kerning(i0, i1) is called on the parsed font.
CallKerning(i0, i1) ==
    /\ parsed # ParsedIdle /\ ~parsed.isNil
    /\ query' = [kind |-> "Kerning", i0 |-> i0, i1 |-> i1] @@ Kerning(parsed.font, i0, i1)
    /\ UNCHANGED <<ttf, parsed>>

(***************************************************************************)
(* The bytecode interpreter: Hinter, graphicsState, Hinter.init and        *)
(* Hinter.run.  A Hinter is a record that also holds the local variables   *)
(* of run (program, pc, top, steps, callStack), so that one loop iteration *)
(* of run is the operator Step on such a record.  The int32 operations of  *)
(* the code wrap around; its int64 intermediate results are computed with  *)
(* the checker's integers, which fail on an overflow instead of wrapping.  *)
(***************************************************************************)
twilightZone == 0

glyphZone == 1

current == 0

unhinted == 1

inFontUnits == 2

\* The limits of run: the program length, the steps and the call stack.
maxProgramLen == 50000

maxSteps == 100000

callStackSize == 32

\* The point flags of glyph.go.
flagOnCurve == 1

flagXShortVector == 2

flagYShortVector == 4

flagRepeat == 8

flagPositiveXShortVector == 16

flagPositiveYShortVector == 32

flagTouchedX == 64

flagTouchedY == 128

\* The opcodes of the TrueType instruction set by their names.
Op ==
    [SVTCA0 |-> 0, SVTCA1 |-> 1, SPVTCA0 |-> 2, SPVTCA1 |-> 3, SFVTCA0 |-> 4,
     SFVTCA1 |-> 5, SPVFS |-> 10, SFVFS |-> 11, GPV |-> 12, GFV |-> 13, SFVTPV |-> 14,
     SRP0 |-> 16, SRP1 |-> 17, SRP2 |-> 18, SZP0 |-> 19, SZP1 |-> 20, SZP2 |-> 21,
     SZPS |-> 22, SLOOP |-> 23, RTG |-> 24, RTHG |-> 25, SMD |-> 26, ELSE_ |-> 27,
     JMPR |-> 28, SCVTCI |-> 29, SSWCI |-> 30, SSW |-> 31, DUP |-> 32, POP |-> 33,
     CLEAR |-> 34, SWAP |-> 35, DEPTH |-> 36, CINDEX |-> 37, MINDEX |-> 38,
     LOOPCALL |-> 42, CALL |-> 43, FDEF |-> 44, ENDF |-> 45, MDAP0 |-> 46, MDAP1 |-> 47,
     IUP0 |-> 48, IUP1 |-> 49, IP |-> 57, ALIGNRP |-> 60, RTDG |-> 61, MIAP0 |-> 62,
     MIAP1 |-> 63, NPUSHB |-> 64, NPUSHW |-> 65, WS |-> 66, RS |-> 67, MPPEM |-> 75,
     MPS |-> 76, FLIPON |-> 77, FLIPOFF |-> 78, DEBUG |-> 79, LT |-> 80, LTEQ |-> 81,
     GT |-> 82, GTEQ |-> 83, EQ |-> 84, NEQ |-> 85, ODD |-> 86, EVEN |-> 87, IF_ |-> 88,
     EIF |-> 89, AND |-> 90, OR |-> 91, NOT |-> 92, SDB |-> 94, SDS |-> 95, ADD |-> 96,
     SUB |-> 97, DIV |-> 98, MUL |-> 99, ABS |-> 100, NEG |-> 101, FLOOR |-> 102,
     CEILING |-> 103, ROUND00 |-> 104, ROUND01 |-> 105, ROUND10 |-> 106, ROUND11 |-> 107,
     NROUND00 |-> 108, NROUND01 |-> 109, NROUND10 |-> 110, NROUND11 |-> 111,
     SROUND |-> 118, S45ROUND |-> 119, JROT |-> 120, JROF |-> 121, ROFF |-> 122,
     RUTG |-> 124, RDTG |-> 125, SANGW |-> 126, AA |-> 127, SCANCTRL |-> 133,
     GETINFO |-> 136, IDEF |-> 137, ROLL |-> 138, MAX |-> 139, MIN |-> 140,
     SCANTYPE |-> 141, PUSHB000 |-> 176, PUSHB001 |-> 177, PUSHB010 |-> 178,
     PUSHB011 |-> 179, PUSHB100 |-> 180, PUSHB101 |-> 181, PUSHB110 |-> 182,
     PUSHB111 |-> 183, PUSHW000 |-> 184, PUSHW001 |-> 185, PUSHW010 |-> 186,
     PUSHW011 |-> 187, PUSHW100 |-> 188, PUSHW101 |-> 189, PUSHW110 |-> 190,
     PUSHW111 |-> 191, MDRP00000 |-> 192, MDRP11111 |-> 223, MIRP00000 |-> 224,
     MIRP11111 |-> 255]

\* The popCount entry of an opcode that is not implemented.
q == 255

\* The opcodes that run has a case for, by the number of stack elements that
\* their case takes without a check of its own.
PopsNone ==
    LET ops(op) ==
          {op.SVTCA0, op.SVTCA1, op.SPVTCA0, op.SPVTCA1, op.SFVTCA0, op.SFVTCA1, op.GPV,
           op.GFV, op.SFVTPV, op.RTG, op.RTHG, op.ELSE_, op.CLEAR, op.DEPTH, op.ENDF,
           op.IUP0, op.IUP1, op.IP, op.ALIGNRP, op.RTDG, op.NPUSHB, op.NPUSHW, op.MPPEM,
           op.MPS, op.FLIPON, op.FLIPOFF, op.DEBUG, op.EIF, op.ROFF, op.RUTG, op.RDTG}
              \cup (op.PUSHB000 .. op.PUSHW111)
    IN ops(Op)

PopsOne ==
    LET ops(op) ==
          {op.SRP0, op.SRP1, op.SRP2, op.SZP0, op.SZP1, op.SZP2, op.SZPS, op.SLOOP, op.SMD,
           op.JMPR, op.SCVTCI, op.SSWCI, op.SSW, op.DUP, op.POP, op.CINDEX, op.MINDEX,
           op.CALL, op.FDEF, op.MDAP0, op.MDAP1, op.RS, op.ODD, op.EVEN, op.IF_, op.NOT,
           op.SDB, op.SDS, op.ABS, op.NEG, op.FLOOR, op.CEILING, op.SROUND, op.S45ROUND,
           op.SANGW, op.AA, op.SCANCTRL, op.GETINFO, op.IDEF, op.SCANTYPE}
              \cup (op.ROUND00 .. op.NROUND11) \cup (op.MDRP00000 .. op.MDRP11111)
    IN ops(Op)

PopsTwo ==
    LET ops(op) ==
          {op.SPVFS, op.SFVFS, op.SWAP, op.LOOPCALL, op.MIAP0, op.MIAP1, op.WS, op.LT,
           op.LTEQ, op.GT, op.GTEQ, op.EQ, op.NEQ, op.AND, op.OR, op.ADD, op.SUB, op.DIV,
           op.MUL, op.JROT, op.JROF, op.MAX, op.MIN}
              \cup (op.MIRP00000 .. op.MIRP11111)
    IN ops(Op)

PopsThree == {Op.ROLL}

\* popCount: the number of stack elements an opcode pops, q when it is not
\* implemented.
popCount ==
    [op \in 0 .. 255 |->
        IF op \in PopsNone THEN 0
        ELSE IF op \in PopsOne THEN 1
        ELSE IF op \in PopsTwo THEN 2
        ELSE IF op \in PopsThree THEN 3
        ELSE q]

ZeroPoint == [X |-> 0, Y |-> 0, Flags |-> 0]

\* The zero graphicsState of a new Hinter.
ZeroGS ==
    [pv |-> <<0, 0>>, fv |-> <<0, 0>>, dv |-> <<0, 0>>, rp |-> <<0, 0, 0>>, zp |-> <<0, 0, 0>>,
     controlValueCutIn |-> 0, singleWidthCutIn |-> 0, singleWidth |-> 0, deltaBase |-> 0,
     deltaShift |-> 0, minDist |-> 0, loop |-> 0, roundPeriod |-> 0, roundPhase |-> 0,
     roundThreshold |-> 0, autoFlip |-> FALSE]

globalDefaultGS ==
    [pv |-> <<16384, 0>>, fv |-> <<16384, 0>>, dv |-> <<16384, 0>>, rp |-> <<0, 0, 0>>,
     zp |-> <<1, 1, 1>>, controlValueCutIn |-> (17 * 64) \div 16, singleWidthCutIn |-> 0,
     singleWidth |-> 0, deltaBase |-> 9, deltaShift |-> 3, minDist |-> 64, loop |-> 1,
     roundPeriod |-> 64, roundPhase |-> 0, roundThreshold |-> 32, autoFlip |-> TRUE]

\* The nil *Font; fonts are told apart by their id, as pointers are in the code.
NilFont ==
    [id |-> 0, unitsPerEm |-> 0, fpgm |-> <<>>, prep |-> <<>>, cvt |-> <<>>,
     maxStackElements |-> 0, maxStorage |-> 0, maxTwilightPoints |-> 0,
     locaOffsetFormat |-> locaOffsetFormatUnknown, loca |-> <<>>, glyf |-> <<>>,
     glyfTail |-> <<>>, hmtx |-> <<>>, vmtx |-> <<>>, nGlyph |-> 0, nHMetric |-> 0]

NoPoints == <<<<>>, <<>>, <<>>>>

\* The zero Hinter, &Hinter{}.  status tells whether run is in its loop.
NewHinter ==
    [stack |-> <<>>, store |-> <<>>, functions |-> <<>>, functionsNil |-> TRUE,
     font |-> NilFont, scale |-> 0, gs |-> ZeroGS, defaultGS |-> ZeroGS,
     points |-> <<NoPoints, NoPoints>>, ends |-> <<>>,
     program |-> <<>>, pc |-> 0, top |-> 0, steps |-> 0, callStack |-> <<>>,
     runs |-> 0, status |-> "ready", err |-> ""]

\* Font.scale(x): x / unitsPerEm rounded to the nearest, half away from zero.
FontScale(f, x) ==
    LET u == f.unitsPerEm
        h == u \div 2
    IN IF x >= 0 THEN (x \div u) + (((x % u) + h) \div u)
       ELSE -(((-1 - x) \div u) + ((((-1 - x) % u) + 1 + h) \div u))

\* Go's a * b on int32 values (two's complement wrap-around); the product of
\* two int16 values is within the int32 values.
RECURSIVE Mul32(_, _)
Mul32(a, b) ==
    IF a \in -32768 .. 32767 /\ b \in -32768 .. 32767 THEN a * b
    ELSE IF b = 0 THEN 0
    ELSE IF b = -1 THEN Neg32(a)
    ELSE Add32(IF b % 2 = 1 THEN a ELSE 0, Mul32(Add32(a, a), b \div 2))

\* f26dot6.abs.
Abs26(x) == IF x < 0 THEN Neg32(x) ELSE x

\* f26dot6.div: (int64(x) << 6) / int64(y).
Div26(x, y) == GoDiv(x * 64, y)

\* f26dot6.mul: int64(x) * int64(y) >> 6.
Mul26(x, y) == Shr(x * y, 6)

\* dotProduct(x, y, q): (x*q[0] + y*q[1]) >> 14 in 64 bits.
dotProduct(x, y, qv) == Shr(x * qv[1] + y * qv[2], 14)

\* round, if it rounded a negative x as it rounds the others.
roundUnsigned(gs, x) ==
    LET up(ret) == Add32(IF x # 0 /\ ret < 0 THEN 0 ELSE ret, gs.roundPhase)
    IN IF gs.roundPeriod = 0 THEN x
       ELSE up(And32(Add32(Sub32(x, gs.roundPhase), gs.roundThreshold),
                     Neg32(gs.roundPeriod)))

\* Hinter.round under the rounding state of gs.
round(gs, x) ==
    LET up(ret) == Add32(IF x # 0 /\ ret < 0 THEN 0 ELSE ret, gs.roundPhase)
        down(ret) == Sub32(IF ret > 0 THEN 0 ELSE ret, gs.roundPhase)
    IN IF gs.roundPeriod = 0 THEN x
       ELSE IF x >= 0
       THEN up(And32(Add32(Sub32(x, gs.roundPhase), gs.roundThreshold),
                     Neg32(gs.roundPeriod)))
       ELSE down(Neg32(And32(Add32(Sub32(Neg32(x), gs.roundPhase), gs.roundThreshold),
                             Neg32(gs.roundPeriod))))

bool2int32(b) == IF b THEN 1 ELSE 0

\* The end of run with the error e ("" is the nil error).
Return(s, e) == [s EXCEPT !.status = "returned", !.err = e]

\* The run-time panics of run: a stack or program index out of range, a zone
\* index out of range, a nil *Point dereferenced, an integer division by zero.
StackPanic(s) == Return(s, "panic: stack index out of range")

IndexPanic(s) == Return(s, "panic: index out of range")

NilPanic(s) == Return(s, "panic: nil pointer dereference")

DividePanic(s) == Return(s, "panic: integer divide by zero")

InStack(s, i) == 0 <= i /\ i < Len(s.stack)

\* h.stack[i].
St(s, i) == s.stack[i + 1]

\* body, when every stack index in idxs that body reads or writes exists; the
\* index-out-of-range panic otherwise.
Guard(s, idxs, body) == IF \A i \in idxs : InStack(s, i) THEN body ELSE StackPanic(s)

\* pc++ at the end of the switch.
Next(s) == [s EXCEPT !.pc = @ + 1]

\* The end of a case whose last call may have panicked: that return, or pc++.
NextUnlessReturned(s) == IF s.status = "returned" THEN s ELSE Next(s)

\* pc += d for an int32 d; a sum beyond the checker's integers is beyond every
\* program, and is held as the largest integer.
Jump(s, d) == [s EXCEPT !.pc = IF d > MaxInt32 - @ THEN MaxInt32 ELSE @ + d]

\* Hinter.point: a reference to the point, nil, or the panic of a zone pointer
\* that is neither 0 nor 1.
point(s, zonePointer, pt, i) ==
    LET z == s.gs.zp[zonePointer + 1]
    IN IF z < 0 \/ z > 1 THEN [kind |-> "panic"]
       ELSE IF i < 0 \/ Len(s.points[z + 1][pt + 1]) <= i THEN [kind |-> "nil"]
       ELSE [kind |-> "ok", z |-> z, pt |-> pt, i |-> i]

\* *p for a reference p that is not nil.
Deref(s, p) == s.points[p.z + 1][p.pt + 1][p.i + 1]

\* The state in which the point that p refers to is v.
SetPoint(s, p, v) == [s EXCEPT !.points[p.z + 1][p.pt + 1][p.i + 1] = v]

\* Hinter.move: the point p moves by distance along the freedom vector.
move(s, p, distance) ==
    LET P == Deref(s, p)
        fvx == s.gs.fv[1]
        fvy == s.gs.fv[2]
        fvDotPv == Shr(fvx * s.gs.pv[1] + fvy * s.gs.pv[2], 14)
    IN IF fvx = 0
       THEN SetPoint(s, p, [P EXCEPT !.Y = Add32(@, distance),
                                     !.Flags = Or32(@, flagTouchedY)])
       ELSE IF fvy = 0
       THEN SetPoint(s, p, [P EXCEPT !.X = Add32(@, distance),
                                     !.Flags = Or32(@, flagTouchedX)])
       ELSE IF fvDotPv = 0 THEN DividePanic(s)
       ELSE SetPoint(s, p, [P EXCEPT !.X = Add32(@, GoDiv(distance * fvx, fvDotPv)),
                                     !.Y = Add32(@, GoDiv(distance * fvy, fvDotPv)),
                                     !.Flags = Or32(@, flagTouchedX + flagTouchedY)])

\* Hinter.cvt(i): the scaled control value, 0 outside the table as the code
\* tests it, and the panic of the read that this test lets through.
cvt(s, i) ==
    LET at(j) ==
            IF j < 0 \/ Len(s.font.cvt) < j THEN [panic |-> FALSE, v |-> 0]
            ELSE IF ~CanRead(s.font.cvt, j, 2) THEN [panic |-> TRUE, v |-> 0]
            ELSE [panic |-> FALSE,
                  v |-> FontScale(s.font, Mul32(s.scale, Wrap16(U16At(s.font.cvt, j))))]
    IN at(Mul32(i, 2))

\* skipInstructionPayload: the pc of the last byte of the instruction at pc.
skipInstructionPayload(program, pc) ==
    LET skip(op, opcode) ==
            IF opcode = op.NPUSHB
            THEN IF pc + 1 >= Len(program) THEN [pc |-> 0, ok |-> FALSE]
                 ELSE [pc |-> pc + 1 + At(program, pc + 1), ok |-> TRUE]
            ELSE IF opcode = op.NPUSHW
            THEN IF pc + 1 >= Len(program) THEN [pc |-> 0, ok |-> FALSE]
                 ELSE [pc |-> pc + 1 + 2 * At(program, pc + 1), ok |-> TRUE]
            ELSE IF opcode \in op.PUSHB000 .. op.PUSHB111
            THEN [pc |-> pc + (opcode - (op.PUSHB000 - 1)), ok |-> TRUE]
            ELSE IF opcode \in op.PUSHW000 .. op.PUSHW111
            THEN [pc |-> pc + 2 * (opcode - (op.PUSHW000 - 1)), ok |-> TRUE]
            ELSE [pc |-> pc, ok |-> TRUE]
    IN skip(Op, At(program, pc))

\* The ifelse loop, if it did not count the IFs it passes.
RECURSIVE ifelseloopFlat(_, _, _, _)
ifelseloopFlat(program, pc0, depth, opcode) ==
    LET pc == pc0 + 1
        skipped(r) ==
            IF ~r.ok THEN [ok |-> FALSE, pc |-> pc]
            ELSE ifelseloopFlat(program, r.pc, depth, opcode)
        loop(op) ==
            IF pc >= Len(program) THEN [ok |-> FALSE, pc |-> pc]
            ELSE IF At(program, pc) = op.IF_ THEN ifelseloopFlat(program, pc, depth, opcode)
            ELSE IF At(program, pc) = op.ELSE_
            THEN IF opcode = 0 THEN [ok |-> TRUE, pc |-> pc]
                 ELSE ifelseloopFlat(program, pc, depth, opcode)
            ELSE IF At(program, pc) = op.EIF THEN [ok |-> TRUE, pc |-> pc]
            ELSE skipped(skipInstructionPayload(program, pc))
    IN loop(Op)

\* The ifelse loop of run from pc on: the pc of the ELSE or EIF at which the
\* skipping ends, or no such pc.  opcode is 0 after an IF and 1 after an ELSE.
RECURSIVE ifelseloop(_, _, _, _)
ifelseloop(program, pc0, depth, opcode) ==
    LET pc == pc0 + 1
        skipped(r) ==
            IF ~r.ok THEN [ok |-> FALSE, pc |-> pc]
            ELSE ifelseloop(program, r.pc, depth, opcode)
        loop(op) ==
            IF pc >= Len(program) THEN [ok |-> FALSE, pc |-> pc]
            ELSE IF At(program, pc) = op.IF_ THEN ifelseloop(program, pc, depth + 1, opcode)
            ELSE IF At(program, pc) = op.ELSE_
            THEN IF depth = 0 /\ opcode = 0 THEN [ok |-> TRUE, pc |-> pc]
                 ELSE ifelseloop(program, pc, depth, opcode)
            ELSE IF At(program, pc) = op.EIF
            THEN IF depth - 1 < 0 THEN [ok |-> TRUE, pc |-> pc]
                 ELSE ifelseloop(program, pc, depth - 1, opcode)
            ELSE skipped(skipInstructionPayload(program, pc))
    IN loop(Op)

\* The ifelse label, if the end of the program ended the skipping.
ifelseToEnd(s, opcode) ==
    LET skipped(r) ==
            IF ~r.ok THEN [s EXCEPT !.pc = Len(s.program)]
            ELSE [s EXCEPT !.pc = r.pc + 1]
    IN skipped(ifelseloop(s.program, s.pc, 0, opcode))

\* The ifelse label of run.
ifelse(s, opcode) ==
    LET skipped(r) ==
            IF ~r.ok THEN Return(s, "truetype: hinting: unbalanced IF or ELSE")
            ELSE [s EXCEPT !.pc = r.pc + 1]
    IN skipped(ifelseloop(s.program, s.pc, 0, opcode))

\* The n stack elements that the push label reads from the program at pc.
PushedValues(program, pc, width, n) ==
    [k \in 1 .. n |->
        IF width = 1 THEN At(program, pc + (k - 1))
        ELSE Wrap8(At(program, pc + 2 * (k - 1))) * 256 + At(program, pc + 2 * (k - 1) + 1)]

\* The push label of run: opcode holds the count in its low 7 bits (0: the
\* count is the next program byte) and the width in its high bit.
push(s, opcode) ==
    LET width == IF opcode >= 128 THEN 2 ELSE 1
        low == opcode % 128
        pc1 == IF low = 0 THEN s.pc + 1 ELSE s.pc
    IN IF low = 0 /\ pc1 >= Len(s.program)
       THEN Return(s, "truetype: hinting: insufficient data")
       ELSE LET n == IF low = 0 THEN At(s.program, pc1) ELSE low
                pc == pc1 + 1
            IN IF s.top + n > Len(s.stack)
               THEN Return(s, "truetype: hinting: stack overflow")
               ELSE IF pc + width * n > Len(s.program)
               THEN Return(s, "truetype: hinting: insufficient data")
               ELSE Guard(s, s.top .. (s.top + n - 1),
                        LET vals == PushedValues(s.program, pc, width, n)
                        IN [s EXCEPT
                               !.stack = [i \in 1 .. Len(@) |->
                                            IF i - 1 \in s.top .. (s.top + n - 1)
                                            THEN vals[i - s.top] ELSE @[i]],
                               !.top = @ + n,
                               !.pc = pc + width * n])

\* The fdefloop of run from pc on: the pc of the ENDF, or the error.
RECURSIVE fdefloop(_, _)
fdefloop(program, pc0) ==
    LET pc == pc0 + 1
        skipped(r) ==
            IF ~r.ok THEN [err |-> "truetype: hinting: unbalanced FDEF", pc |-> pc]
            ELSE fdefloop(program, r.pc)
    IN IF pc >= Len(program) THEN [err |-> "truetype: hinting: unbalanced FDEF", pc |-> pc]
       ELSE IF At(program, pc) = Op.FDEF
       THEN [err |-> "truetype: hinting: nested FDEF", pc |-> pc]
       ELSE IF At(program, pc) = Op.ENDF THEN [err |-> "", pc |-> pc]
       ELSE skipped(skipInstructionPayload(program, pc))

\* The state in which h.stack[i] is v.
SetSt(s, i, v) == [s EXCEPT !.stack[i + 1] = v]

\* top -= n.
Pop(s, n) == [s EXCEPT !.top = @ - n]

\* A case of run that replaces the top element by v.
Unary(s, v) == Guard(s, {s.top - 1}, Next(SetSt(s, s.top - 1, v)))

\* A case of run that pops one element and replaces the new top element by v.
Binary(s, v) == Guard(s, {s.top - 2, s.top - 1}, Next(Pop(SetSt(s, s.top - 2, v), 1)))

\* A case of run that pops one element, after which the graphics state is gs.
PopInto(s, gs) == Guard(s, {s.top - 1}, Next([Pop(s, 1) EXCEPT !.gs = gs]))

\* A case of run that only changes the graphics state.
SetGS(s, gs) == Next([s EXCEPT !.gs = gs])

Rounding(gs, period, phase, threshold) ==
    [gs EXCEPT !.roundPeriod = period, !.roundPhase = phase, !.roundThreshold = threshold]

xAxis == <<16384, 0>>

yAxis == <<0, 16384>>

\* case opSROUND, opS45ROUND: the rounding state that the popped x selects.
superRound(gs, opcode, x) ==
    LET rounding(period, low) ==
            Rounding(gs, period, GoDiv(period * And32(Shr(x, 4), 3), 4),
                     IF low # 0 THEN GoDiv(period * (low - 4), 8) ELSE period - 1)
        period(base) == IF opcode = Op.S45ROUND THEN GoDiv(base * 46341, 65536) ELSE base
        base(sel) == IF sel = 0 THEN 32 ELSE IF sel = 2 THEN 128 ELSE 64
    IN rounding(period(base(And32(Shr(x, 6), 3))), And32(x, 15))

\* case opGPV, opGFV: the vector v is pushed.
pushVector(s, v) ==
    IF s.top + 1 >= Len(s.stack) THEN Return(s, "truetype: hinting: stack overflow")
    ELSE Guard(s, {s.top, s.top + 1},
             Next([SetSt(SetSt(s, s.top, v[1]), s.top + 1, v[2]) EXCEPT !.top = @ + 2]))

\* case opDUP, opDEPTH, opMPPEM, opMPS: the value v is pushed.
pushValue(s, v) ==
    IF s.top >= Len(s.stack) THEN Return(s, "truetype: hinting: stack overflow")
    ELSE Guard(s, {s.top}, Next([SetSt(s, s.top, v) EXCEPT !.top = @ + 1]))

\* case opCINDEX, opMINDEX.
index(s, opcode) ==
    Guard(s, {s.top - 1},
        LET x == St(s, s.top - 1)
        IN IF x <= 0 \/ x >= s.top THEN Return(s, "truetype: hinting: invalid data")
           ELSE Guard(s, {s.top - 1 - x},
                  LET v == St(s, s.top - 1 - x)
                  IN IF opcode = Op.CINDEX THEN Next(SetSt(s, s.top - 1, v))
                     ELSE Next([s EXCEPT
                             !.stack = [k \in 1 .. Len(@) |->
                                          IF k - 1 = s.top - 1 THEN v
                                          ELSE IF k - 1 \in (s.top - 1 - x) .. (s.top - 2)
                                          THEN IF k = s.top - 1 THEN v ELSE @[k + 1]
                                          ELSE @[k]],
                             !.top = @ - 1])))

\* case opLOOPCALL, opCALL.
call(s, opcode) ==
    IF Len(s.callStack) >= callStackSize
    THEN Return(s, "truetype: hinting: call stack overflow")
    ELSE Guard(s, {s.top - 1} \cup (IF opcode = Op.LOOPCALL THEN {s.top - 2} ELSE {}),
           LET fn == St(s, s.top - 1)
           IN IF fn \notin DOMAIN s.functions
              THEN Return(Pop(s, 1), "truetype: hinting: undefined function")
              ELSE IF opcode = Op.LOOPCALL /\ St(s, s.top - 2) = 0 THEN Next(Pop(s, 2))
              ELSE [s EXCEPT
                      !.top = IF opcode = Op.LOOPCALL THEN @ - 2 ELSE @ - 1,
                      !.callStack = Append(@,
                          [program |-> s.program, pc |-> s.pc,
                           loopCount |-> IF opcode = Op.LOOPCALL THEN St(s, s.top - 2)
                                         ELSE 1]),
                      !.program = s.functions[fn],
                      !.pc = 0])

\* case opFDEF.
fdef(s) ==
    LET define(r) ==
            IF r.err # "" THEN Return(s, r.err)
            ELSE Guard(s, {s.top - 1},
                   IF s.functionsNil
                   THEN Return(Pop(s, 1), "panic: assignment to entry in nil map")
                   ELSE LET fn == St(s, s.top - 1)
                            body == Slice(s.program, s.pc + 1, r.pc + 1)
                        IN [s EXCEPT
                              !.top = @ - 1,
                              !.functions = [k \in (DOMAIN @) \cup {fn} |->
                                                IF k = fn THEN body ELSE @[k]],
                              !.pc = r.pc + 1])
    IN define(fdefloop(s.program, s.pc))

\* case opENDF, if it returned to the caller whatever the loop count is.
endfOnce(s) ==
    IF Len(s.callStack) = 0 THEN Return(s, "truetype: hinting: call stack underflow")
    ELSE LET n == Len(s.callStack)
             e == s.callStack[n]
         IN [s EXCEPT !.callStack = SubSeq(@, 1, n - 1),
                      !.program = e.program, !.pc = e.pc + 1]

\* case opENDF.
endf(s) ==
    IF Len(s.callStack) = 0 THEN Return(s, "truetype: hinting: call stack underflow")
    ELSE LET n == Len(s.callStack)
             e == s.callStack[n]
             count == Sub32(e.loopCount, 1)
         IN IF count # 0
            THEN [s EXCEPT !.callStack[n].loopCount = count, !.pc = 0]
            ELSE [s EXCEPT !.callStack = SubSeq(@, 1, n - 1),
                           !.program = e.program, !.pc = e.pc + 1]

\* case opWS.
ws(s) ==
    Guard(s, {s.top - 2, s.top - 1},
        LET i == St(s, s.top - 2)
        IN IF i < 0 \/ Len(s.store) <= i
           THEN Return(Pop(s, 2), "truetype: hinting: invalid data")
           ELSE Next([Pop(s, 2) EXCEPT !.store[i + 1] = St(s, s.top - 1)]))

\* case opRS.
rs(s) ==
    Guard(s, {s.top - 1},
        LET i == St(s, s.top - 1)
        IN IF i < 0 \/ Len(s.store) <= i THEN Return(s, "truetype: hinting: invalid data")
           ELSE Next(SetSt(s, s.top - 1, s.store[i + 1])))

\* case opJMPR, opJROT, opJROF: the jump by the popped offset when taken holds.
jump(s, n, offset, taken) ==
    Guard(s, (s.top - n) .. (s.top - 1),
        IF taken THEN Jump(Pop(s, n), offset) ELSE Next(Pop(s, n)))

\* case opGETINFO.
getinfo(x) ==
    (IF And32(x, 1) # 0 THEN 35 ELSE 0) + (IF And32(x, 32) # 0 THEN 4096 ELSE 0)

\* case opROLL.
roll(s) ==
    Guard(s, {s.top - 3, s.top - 2, s.top - 1},
        Next([s EXCEPT !.stack[s.top] = s.stack[s.top - 2],
                       !.stack[s.top - 2] = s.stack[s.top - 1],
                       !.stack[s.top - 1] = s.stack[s.top]]))

\* The outcome of dereferencing the references in ps: the zone panic, the nil
\* dereference, or "" when every reference is to a point.
DerefError(ps) ==
    IF \E k \in DOMAIN ps : ps[k].kind = "panic" THEN "panic: index out of range"
    ELSE IF \E k \in DOMAIN ps : ps[k].kind = "nil" THEN "panic: nil pointer dereference"
    ELSE ""

\* dotProduct(p.X - r.X, p.Y - r.Y, v) for the points p and r.
Distance(P, R, v) == dotProduct(Sub32(P.X, R.X), Sub32(P.Y, R.Y), v)

\* case opMDAP0, opMDAP1.
mdap(s, opcode) ==
    Guard(s, {s.top - 1},
        LET i == St(s, s.top - 1)
            s1 == Pop(s, 1)
            moved(s2) ==
                IF s2.status = "returned" THEN s2
                ELSE Next([s2 EXCEPT !.gs.rp[1] = i, !.gs.rp[2] = i])
            distance(d) == IF opcode = Op.MDAP1 THEN Sub32(round(s1.gs, d), d) ELSE 0
            touch(p) ==
                IF p.kind = "panic" THEN IndexPanic(s1)
                ELSE IF p.kind = "nil" THEN Return(s1, "truetype: hinting: point out of range")
                ELSE moved(move(s1, p, distance(dotProduct(Deref(s1, p).X, Deref(s1, p).Y,
                                                           s1.gs.pv))))
        IN touch(point(s1, 0, current, i)))

\* The indices of the touched points among lo .. hi-1 of the current points.
Touched(cur, lo, hi, mask) == {i \in lo .. (hi - 1) : And32(cur[i + 1].Flags, mask) # 0}

Coord(P, interpY) == IF interpY THEN P.Y ELSE P.X

SetCoord(P, interpY, v) == IF interpY THEN [P EXCEPT !.Y = v] ELSE [P EXCEPT !.X = v]

\* The loop of iupInterp over the points p1 .. p2, of which it reaches the
\* points up to last: at the point after last, if that is one of p1 .. p2, an
\* index is out of range.
iupInterpLoop(s, interpY, p1, p2, r1, r2, last) ==
    LET cur == s.points[glyphZone + 1][current + 1]
        unh == s.points[glyphZone + 1][unhinted + 1]
        ifu == s.points[glyphZone + 1][inFontUnits + 1]
        between(ref1, ref2) ==
            LET ifu1 == Coord(ifu[ref1 + 1], interpY)
                ifu2 == Coord(ifu[ref2 + 1], interpY)
                unh1 == Coord(unh[ref1 + 1], interpY)
                unh2 == Coord(unh[ref2 + 1], interpY)
                interp(i, delta1, delta2, scale) ==
                    LET xy == Coord(unh[i + 1], interpY)
                        numer == (Coord(ifu[i + 1], interpY) - ifu1) * scale
                    IN IF ifu1 = ifu2
                       THEN IF xy <= unh1 THEN Add32(xy, delta1)
                            ELSE Add32(xy, delta2)
                       ELSE IF xy <= unh1 THEN Add32(xy, delta1)
                       ELSE IF xy >= unh2 THEN Add32(xy, delta2)
                       ELSE Add32(Add32(unh1, delta1),
                                  GoDiv(IF numer >= 0 THEN numer + 32768
                                        ELSE numer - 32768, 65536))
                points(delta1, delta2, scale) ==
                    [s EXCEPT !.points[glyphZone + 1][current + 1] =
                        [k \in 1 .. Len(cur) |->
                           IF k - 1 \in p1 .. last
                           THEN SetCoord(cur[k], interpY,
                                         interp(k - 1, delta1, delta2, scale))
                           ELSE cur[k]],
                      !.status = IF last = p2 THEN @ ELSE IndexPanic(s).status,
                      !.err = IF last = p2 THEN @ ELSE IndexPanic(s).err]
                scaled(delta1, delta2, numer) ==
                    points(delta1, delta2,
                           GoDiv(IF numer >= 0 THEN numer + GoDiv(ifu2 - ifu1, 2)
                                 ELSE numer - GoDiv(ifu2 - ifu1, 2), ifu2 - ifu1))
                deltas(delta1, delta2) ==
                    scaled(delta1, delta2,
                           Sub32(Sub32(Add32(unh2, delta2), unh1), delta1) * 65536)
            IN deltas(Sub32(Coord(cur[ref1 + 1], interpY), unh1),
                      Sub32(Coord(cur[ref2 + 1], interpY), unh2))
    IN IF Coord(ifu[r1 + 1], interpY) > Coord(ifu[r2 + 1], interpY)
       THEN between(r2, r1) ELSE between(r1, r2)

\* Hinter.iupInterp: the points p1 .. p2 are interpolated between ref1 and ref2.
\* The references are read in all three slices.  The loop reads unhinted[i]
\* and writes current[i]; it reads inFontUnits[i] only where the references
\* differ in font units.  At the first i that is out of a slice's range the
\* loop panics, with the points before i written.
iupInterp(s, interpY, p1, p2, r1, r2) ==
    LET cur == s.points[glyphZone + 1][current + 1]
        unh == s.points[glyphZone + 1][unhinted + 1]
        ifu == s.points[glyphZone + 1][inFontUnits + 1]
        bad == {i \in p1 .. p2 :
                   \/ i < 0 \/ i >= Len(unh) \/ i >= Len(cur)
                   \/ i >= Len(ifu) /\ ifu[r1 + 1].X # ifu[r2 + 1].X /\ ~interpY
                   \/ i >= Len(ifu) /\ ifu[r1 + 1].Y # ifu[r2 + 1].Y /\ interpY}
    IN IF p1 > p2 THEN s
       ELSE IF r1 >= Len(cur) \/ r2 >= Len(cur) THEN s
       ELSE IF \E k \in {r1, r2} : k < 0 \/ k >= Len(ifu) \/ k >= Len(unh)
       THEN IndexPanic(s)
       ELSE iupInterpLoop(s, interpY, p1, p2, r1, r2,
                          IF bad = {} THEN p2
                          ELSE (CHOOSE i \in bad : \A j \in bad : i <= j) - 1)

\* iupShift without the test that leaves p itself where it is.
iupShiftAll(s, interpY, p1, p2, p) ==
    LET cur == s.points[glyphZone + 1][current + 1]
        unh == s.points[glyphZone + 1][unhinted + 1]
    IN IF p >= Len(unh) THEN IndexPanic(s)
       ELSE LET delta == Sub32(Coord(cur[p + 1], interpY), Coord(unh[p + 1], interpY))
            IN IF delta = 0 THEN s
               ELSE [s EXCEPT !.points[glyphZone + 1][current + 1] =
                       [k \in 1 .. Len(cur) |->
                          IF k - 1 \in p1 .. (p2 - 1)
                          THEN SetCoord(cur[k], interpY, Add32(Coord(cur[k], interpY), delta))
                          ELSE cur[k]]]

\* Hinter.iupShift: the points p1 .. p2-1 but p are shifted as p was.
iupShift(s, interpY, p1, p2, p) ==
    LET cur == s.points[glyphZone + 1][current + 1]
        unh == s.points[glyphZone + 1][unhinted + 1]
    IN IF p >= Len(unh) THEN IndexPanic(s)
       ELSE LET delta == Sub32(Coord(cur[p + 1], interpY), Coord(unh[p + 1], interpY))
            IN IF delta = 0 THEN s
               ELSE [s EXCEPT !.points[glyphZone + 1][current + 1] =
                       [k \in 1 .. Len(cur) |->
                          IF k - 1 \in p1 .. (p2 - 1) /\ k - 1 # p
                          THEN SetCoord(cur[k], interpY, Add32(Coord(cur[k], interpY), delta))
                          ELSE cur[k]]]

\* The calls of iupInterp for the touched points after curTouched in a contour.
RECURSIVE iupBetween(_, _, _, _, _)
iupBetween(s, interpY, touched, curTouched, end) ==
    LET later == {i \in touched : i > curTouched}
    IN IF s.status = "returned" \/ later = {} THEN s
       ELSE LET i == CHOOSE j \in later : \A k \in later : j <= k
            IN iupBetween(iupInterp(s, interpY, curTouched + 1, i - 1, curTouched, i),
                          interpY, touched, i, end)

\* The body of the loop of case opIUP0, opIUP1 for the contour prevEnd .. end-1.
\* The scan reads the flags of current[i] for i from prevEnd up to end-1 and
\* calls iupInterp at each touched point after the first: where i leaves the
\* slice before it reaches end, the scan panics there, after these calls.
iupContour(s, iupY, mask, prevEnd, end) ==
    LET cur == s.points[glyphZone + 1][current + 1]
        before(s2, firstTouched, curTouched) ==
            IF s2.status = "returned" \/ firstTouched <= 0 THEN s2
            ELSE iupInterp(s2, iupY, prevEnd, firstTouched - 1, curTouched, firstTouched)
        after(s1, firstTouched, curTouched) ==
            IF s1.status = "returned" THEN s1
            ELSE IF end > Len(cur) THEN IndexPanic(s1)
            ELSE IF curTouched = firstTouched
            THEN iupShift(s1, iupY, prevEnd, end, curTouched)
            ELSE before(iupInterp(s1, iupY, curTouched + 1, end - 1, curTouched,
                                  firstTouched),
                        firstTouched, curTouched)
        contour(touched) ==
            IF touched = {} THEN IF end > Len(cur) THEN IndexPanic(s) ELSE s
            ELSE LET firstTouched == CHOOSE j \in touched : \A k \in touched : j <= k
                     curTouched == CHOOSE j \in touched : \A k \in touched : j >= k
                 IN after(iupBetween(s, iupY, touched, firstTouched, end),
                          firstTouched, curTouched)
    IN IF prevEnd >= end THEN s
       ELSE IF prevEnd < 0 THEN IndexPanic(s)
       ELSE contour(Touched(cur, prevEnd, IF end > Len(cur) THEN Len(cur) ELSE end, mask))

\* The loop over h.ends of case opIUP0, opIUP1, from the k-th contour on.
RECURSIVE iupContours(_, _, _, _, _)
iupContours(s, iupY, mask, k, prevEnd) ==
    IF s.status = "returned" \/ k > Len(s.ends) THEN s
    ELSE iupContours(iupContour(s, iupY, mask, prevEnd, s.ends[k]), iupY, mask,
                     k + 1, s.ends[k])

\* case opIUP0, opIUP1.
iup(s, opcode) ==
    NextUnlessReturned(
        iupContours(s, opcode = Op.IUP0,
                    IF opcode = Op.IUP0 THEN flagTouchedY ELSE flagTouchedX, 1, 0))

\* The loop of case opIP: gs.loop points are popped and interpolated between
\* the reference points oldP and curP.
RECURSIVE ipLoop(_, _, _, _, _, _)
ipLoop(s, pointType, oldP, curP, oldRange, curRange) ==
    IF s.gs.loop = 0 THEN Next([s EXCEPT !.gs.loop = 1])
    ELSE Guard(s, {s.top - 1},
           LET i == St(s, s.top - 1)
               s1 == Pop(s, 1)
               moved(s2) ==
                   IF s2.status = "returned" THEN s2
                   ELSE ipLoop([s2 EXCEPT !.gs.loop = Sub32(@, 1)], pointType, oldP, curP,
                               oldRange, curRange)
               newDist(oldDist) ==
                   IF oldDist = 0 THEN 0
                   ELSE IF oldRange # 0
                   THEN GoDiv(oldDist * curRange + GoDiv(oldRange, 2), oldRange)
                   ELSE Neg32(oldDist)
               interpolate(p0, p, e) ==
                   IF e # "" THEN Return(s1, e)
                   ELSE moved(move(s1, p,
                            Sub32(newDist(Distance(Deref(s1, p0), Deref(s1, oldP), s1.gs.dv)),
                                  Distance(Deref(s1, p), Deref(s1, curP), s1.gs.pv))))
               points(p0, p) == interpolate(p0, p, DerefError(<<p0, p>>))
           IN points(point(s1, 2, pointType, i), point(s1, 2, current, i)))

\* case opIP.
ip(s) ==
    IF s.top < s.gs.loop THEN Return(s, "truetype: hinting: stack underflow")
    ELSE LET twilight == s.gs.zp[1] = 0 \/ s.gs.zp[2] = 0 \/ s.gs.zp[3] = 0
             pointType == IF twilight THEN unhinted ELSE inFontUnits
             ranges(p0, oldP, p, curP, e0, e) ==
                 IF e0 # "" THEN Return(s, e0)
                 ELSE IF e # "" THEN Return(s, e)
                 ELSE ipLoop(s, pointType, oldP, curP,
                             Distance(Deref(s, p0), Deref(s, oldP), s.gs.dv),
                             Distance(Deref(s, p), Deref(s, curP), s.gs.pv))
             refs(p0, oldP, p, curP) ==
                 ranges(p0, oldP, p, curP, DerefError(<<p0, oldP>>), DerefError(<<p, curP>>))
         IN refs(point(s, 1, pointType, s.gs.rp[3]), point(s, 0, pointType, s.gs.rp[2]),
                 point(s, 1, current, s.gs.rp[3]), point(s, 0, current, s.gs.rp[2]))

\* The loop of case opALIGNRP: gs.loop points are popped and aligned with ref.
RECURSIVE alignLoop(_, _)
alignLoop(s, ref) ==
    IF s.gs.loop = 0 THEN Next([s EXCEPT !.gs.loop = 1])
    ELSE Guard(s, {s.top - 1},
           LET s1 == Pop(s, 1)
               moved(s2) ==
                   IF s2.status = "returned" THEN s2
                   ELSE alignLoop([s2 EXCEPT !.gs.loop = Sub32(@, 1)], ref)
               align(p) ==
                   IF p.kind = "panic" THEN IndexPanic(s1)
                   ELSE IF p.kind = "nil"
                   THEN Return(s1, "truetype: hinting: point out of range")
                   ELSE moved(move(s1, p,
                            Neg32(Distance(Deref(s1, p), Deref(s1, ref), s1.gs.pv))))
           IN align(point(s1, 1, current, St(s, s.top - 1))))

\* case opALIGNRP.
alignrp(s) ==
    IF s.top < s.gs.loop THEN Return(s, "truetype: hinting: stack underflow")
    ELSE LET loop(ref) ==
                 IF ref.kind = "panic" THEN IndexPanic(s)
                 ELSE IF ref.kind = "nil"
                 THEN Return(s, "truetype: hinting: point out of range")
                 ELSE alignLoop(s, ref)
         IN loop(point(s, 0, current, s.gs.rp[1]))

\* case opMIAP0, opMIAP1.
miap(s, opcode) ==
    Guard(s, {s.top - 2, s.top - 1},
        LET i == St(s, s.top - 2)
            s1 == Pop(s, 2)
            moved(s3) ==
                IF s3.status = "returned" THEN s3
                ELSE Next([s3 EXCEPT !.gs.rp[1] = i, !.gs.rp[2] = i])
            distance(s2, c, oldDist) ==
                IF opcode = Op.MIAP1
                THEN round(s2.gs, IF Abs26(Sub32(c.v, oldDist)) > s2.gs.controlValueCutIn
                                  THEN oldDist ELSE c.v)
                ELSE c.v
            align(s2, c, p, oldDist) ==
                moved(move(s2, p, Sub32(distance(s2, c, oldDist), oldDist)))
            measure(s2, c, p, e) ==
                IF e # "" THEN Return(s2, e)
                ELSE align(s2, c, p, dotProduct(Deref(s2, p).X, Deref(s2, p).Y, s2.gs.pv))
            inZone(s2, c, p) == measure(s2, c, p, DerefError(<<p>>))
            twilight(c, tp, tq, te, TP) ==
                IF c.panic THEN IndexPanic(s1)
                ELSE IF te # "" THEN Return(s1, te)
                ELSE IF s1.gs.zp[1] = 0
                THEN inZone(SetPoint(SetPoint(s1, tp, TP), tq, TP), c,
                            point(SetPoint(SetPoint(s1, tp, TP), tq, TP), 0, current, i))
                ELSE inZone(s1, c, point(s1, 0, current, i))
            refs(c, tp, tq) ==
                twilight(c, tp, tq,
                         IF s1.gs.zp[1] = 0 THEN DerefError(<<tp, tq>>) ELSE "",
                         [Deref(s1, tp) EXCEPT !.X = Shr(c.v * s1.gs.fv[1], 14),
                                               !.Y = Shr(c.v * s1.gs.fv[2], 14)])
        IN refs(cvt(s, St(s, s.top - 1)), point(s1, 0, unhinted, i),
                point(s1, 0, current, i)))

\* The single-width cut-in test of MDRP and MIRP on the distance d.
singleWidthTest(gs, d) ==
    IF Abs26(Sub32(d, gs.singleWidth)) < gs.singleWidthCutIn
    THEN IF d >= 0 THEN gs.singleWidth ELSE Neg32(gs.singleWidth)
    ELSE d

\* The rounding bit and the minimum distance bit of MDRP and MIRP.
roundAndMinDist(gs, opcode, oldDist) ==
    LET minDist(rounded) ==
            IF And32(opcode, 8) = 0 THEN rounded
            ELSE IF oldDist >= 0
            THEN IF rounded < gs.minDist THEN gs.minDist ELSE rounded
            ELSE IF rounded > Neg32(gs.minDist) THEN Neg32(gs.minDist) ELSE rounded
    IN minDist(IF And32(opcode, 4) # 0 THEN round(gs, oldDist) ELSE oldDist)

\* The set-RP0 bit of MDRP and MIRP and the reference points after them.
setRP(gs, opcode, i) ==
    LET rp0 == IF And32(opcode, 16) # 0 THEN i ELSE gs.rp[1]
    IN [gs EXCEPT !.rp = <<rp0, rp0, i>>]

\* case opMDRP00000 ... opMDRP11111.
mdrp(s, opcode) ==
    Guard(s, {s.top - 1},
        LET i == St(s, s.top - 1)
            s1 == Pop(s, 1)
            twilight == s1.gs.zp[1] = 0 \/ s1.gs.zp[2] = 0
            pt == IF twilight THEN unhinted ELSE inFontUnits
            scaled(d0) == IF twilight THEN d0 ELSE FontScale(s1.font, Mul32(s1.scale, d0))
            oldDist(p0, p1) ==
                singleWidthTest(s1.gs,
                    scaled(Distance(Deref(s1, p0), Deref(s1, p1), s1.gs.dv)))
            measure(ref, p, p0, p1, e) ==
                IF ref.kind = "panic" \/ p.kind = "panic" THEN IndexPanic(s1)
                ELSE IF ref.kind = "nil" \/ p.kind = "nil"
                THEN Return(s1, "truetype: hinting: point out of range")
                ELSE IF e # "" THEN Return(s1, e)
                ELSE NextUnlessReturned(
                       move([s1 EXCEPT !.gs = setRP(@, opcode, i)], p,
                            Sub32(roundAndMinDist(s1.gs, opcode, oldDist(p0, p1)),
                                  Distance(Deref(s1, p), Deref(s1, ref), s1.gs.pv))))
            refs(ref, p, p0, p1) == measure(ref, p, p0, p1, DerefError(<<p0, p1>>))
        IN refs(point(s1, 0, current, s1.gs.rp[1]), point(s1, 1, current, i),
                point(s1, 1, pt, i), point(s1, 0, pt, s1.gs.rp[1])))

\* case opMIRP00000 ... opMIRP11111.
mirp(s, opcode) ==
    Guard(s, {s.top - 2, s.top - 1},
        LET i == St(s, s.top - 2)
            s1 == Pop(s, 2)
            measure(c, ref0, p0, ref, p) ==
                IF c.panic THEN IndexPanic(s1)
                ELSE IF s1.gs.zp[2] = 0
                THEN Return(s1, "truetype: hinting: unimplemented twilight point adjustment")
                ELSE IF \E r \in {ref0, p0, ref, p} : r.kind = "panic" THEN IndexPanic(s1)
                ELSE IF \E r \in {ref0, p0, ref, p} : r.kind = "nil"
                THEN Return(s1, "truetype: hinting: point out of range")
                ELSE LET cvtDist == singleWidthTest(s1.gs, c.v)
                         oldDist == Distance(Deref(s1, p0), Deref(s1, ref0), s1.gs.dv)
                         curDist == Distance(Deref(s1, p), Deref(s1, ref), s1.gs.dv)
                     IN NextUnlessReturned(
                            move([s1 EXCEPT !.gs = setRP(@, opcode, i)], p,
                                 Sub32(roundAndMinDist(s1.gs, opcode, oldDist), curDist)))
        IN measure(cvt(s, St(s, s.top - 1)), point(s1, 0, unhinted, s1.gs.rp[1]),
                   point(s1, 1, unhinted, i), point(s1, 0, current, s1.gs.rp[1]),
                   point(s1, 1, current, i)))

\* The switch of run on opcode, with the pc++ or continue that ends each case.
Execute(s, opcode) ==
    LET top == s.top
        a == St(s, top - 2)
        b == St(s, top - 1)
        switch(op) ==
          CASE opcode = op.SVTCA0 ->
                 SetGS(s, [s.gs EXCEPT !.pv = yAxis, !.fv = yAxis, !.dv = yAxis])
            [] opcode = op.SVTCA1 ->
                 SetGS(s, [s.gs EXCEPT !.pv = xAxis, !.fv = xAxis, !.dv = xAxis])
            [] opcode = op.SPVTCA0 -> SetGS(s, [s.gs EXCEPT !.pv = yAxis, !.dv = yAxis])
            [] opcode = op.SPVTCA1 -> SetGS(s, [s.gs EXCEPT !.pv = xAxis, !.dv = xAxis])
            [] opcode = op.SFVTCA0 -> SetGS(s, [s.gs EXCEPT !.fv = yAxis])
            [] opcode = op.SFVTCA1 -> SetGS(s, [s.gs EXCEPT !.fv = xAxis])
            [] opcode = op.SPVFS ->
                 Guard(s, {top - 2, top - 1},
                     Next([Pop(s, 2) EXCEPT !.gs.pv = <<Wrap16(a), Wrap16(b)>>]))
            [] opcode = op.SFVFS ->
                 Guard(s, {top - 2, top - 1},
                     Next([Pop(s, 2) EXCEPT !.gs.fv = <<Wrap16(a), Wrap16(b)>>]))
            [] opcode = op.GPV -> pushVector(s, s.gs.pv)
            [] opcode = op.GFV -> pushVector(s, s.gs.fv)
            [] opcode = op.SFVTPV -> SetGS(s, [s.gs EXCEPT !.fv = s.gs.pv])
            [] opcode \in {op.SRP0, op.SRP1, op.SRP2} ->
                 PopInto(s, [s.gs EXCEPT !.rp[opcode - op.SRP0 + 1] = b])
            [] opcode \in {op.SZP0, op.SZP1, op.SZP2} ->
                 PopInto(s, [s.gs EXCEPT !.zp[opcode - op.SZP0 + 1] = b])
            [] opcode = op.SZPS -> PopInto(s, [s.gs EXCEPT !.zp = <<b, b, b>>])
            [] opcode = op.SLOOP ->
                 Guard(s, {top - 1},
                     IF b <= 0 THEN Return(Pop(s, 1), "truetype: hinting: invalid data")
                     ELSE Next([Pop(s, 1) EXCEPT !.gs.loop = b]))
            [] opcode = op.RTG -> SetGS(s, Rounding(s.gs, 64, 0, 32))
            [] opcode = op.RTHG -> SetGS(s, Rounding(s.gs, 64, 32, 32))
            [] opcode = op.SMD -> PopInto(s, [s.gs EXCEPT !.minDist = b])
            [] opcode = op.ELSE_ -> ifelse(s, 1)
            [] opcode = op.JMPR -> jump(s, 1, b, TRUE)
            [] opcode = op.SCVTCI -> PopInto(s, [s.gs EXCEPT !.controlValueCutIn = b])
            [] opcode = op.SSWCI -> PopInto(s, [s.gs EXCEPT !.singleWidthCutIn = b])
            [] opcode = op.SSW ->
                 PopInto(s, [s.gs EXCEPT !.singleWidth = FontScale(s.font, Mul32(s.scale, b))])
            [] opcode = op.DUP ->
                 IF top >= Len(s.stack) THEN Return(s, "truetype: hinting: stack overflow")
                 ELSE Guard(s, {top - 1, top}, Next([SetSt(s, top, b) EXCEPT !.top = @ + 1]))
            [] opcode = op.POP -> Next(Pop(s, 1))
            [] opcode = op.CLEAR -> Next([s EXCEPT !.top = 0])
            [] opcode = op.SWAP ->
                 Guard(s, {top - 2, top - 1}, Next(SetSt(SetSt(s, top - 1, a), top - 2, b)))
            [] opcode = op.DEPTH -> pushValue(s, top)
            [] opcode \in {op.CINDEX, op.MINDEX} -> index(s, opcode)
            [] opcode \in {op.LOOPCALL, op.CALL} -> call(s, opcode)
            [] opcode = op.FDEF -> fdef(s)
            [] opcode = op.ENDF -> endf(s)
            [] opcode \in {op.MDAP0, op.MDAP1} -> mdap(s, opcode)
            [] opcode \in {op.IUP0, op.IUP1} -> iup(s, opcode)
            [] opcode = op.IP -> ip(s)
            [] opcode = op.ALIGNRP -> alignrp(s)
            [] opcode = op.RTDG -> SetGS(s, Rounding(s.gs, 32, 0, 16))
            [] opcode \in {op.MIAP0, op.MIAP1} -> miap(s, opcode)
            [] opcode = op.NPUSHB -> push(s, 0)
            [] opcode = op.NPUSHW -> push(s, 128)
            [] opcode = op.WS -> ws(s)
            [] opcode = op.RS -> rs(s)
            [] opcode \in {op.MPPEM, op.MPS} -> pushValue(s, Shr(s.scale, 6))
            [] opcode \in {op.FLIPON, op.FLIPOFF} ->
                 SetGS(s, [s.gs EXCEPT !.autoFlip = (opcode = op.FLIPON)])
            [] opcode = op.DEBUG -> Next(s)
            [] opcode = op.LT -> Binary(s, bool2int32(a < b))
            [] opcode = op.LTEQ -> Binary(s, bool2int32(a <= b))
            [] opcode = op.GT -> Binary(s, bool2int32(a > b))
            [] opcode = op.GTEQ -> Binary(s, bool2int32(a >= b))
            [] opcode = op.EQ -> Binary(s, bool2int32(a = b))
            [] opcode = op.NEQ -> Binary(s, bool2int32(a # b))
            [] opcode \in {op.ODD, op.EVEN} ->
                 Unary(s, Xor32(And32(Shr(round(s.gs, b), 6), 1), opcode - op.ODD))
            [] opcode = op.IF_ ->
                 Guard(s, {top - 1}, IF b = 0 THEN ifelse(Pop(s, 1), 0) ELSE Next(Pop(s, 1)))
            [] opcode = op.EIF -> Next(s)
            [] opcode = op.AND -> Binary(s, bool2int32(a # 0 /\ b # 0))
            [] opcode = op.OR -> Binary(s, bool2int32(Or32(a, b) # 0))
            [] opcode = op.NOT -> Unary(s, bool2int32(b = 0))
            [] opcode = op.SDB -> PopInto(s, [s.gs EXCEPT !.deltaBase = b])
            [] opcode = op.SDS -> PopInto(s, [s.gs EXCEPT !.deltaShift = b])
            [] opcode = op.ADD -> Binary(s, Add32(a, b))
            [] opcode = op.SUB -> Binary(s, Sub32(a, b))
            [] opcode = op.DIV ->
                 Guard(s, {top - 2, top - 1},
                     IF b = 0 THEN Return(Pop(s, 1), "truetype: hinting: division by zero")
                     ELSE Binary(s, Wrap32(Div26(a, b))))
            [] opcode = op.MUL -> Binary(s, Wrap32(Mul26(a, b)))
            [] opcode = op.ABS -> Unary(s, IF b < 0 THEN Neg32(b) ELSE b)
            [] opcode = op.NEG -> Unary(s, Neg32(b))
            [] opcode = op.FLOOR -> Unary(s, AndNot32(b, 63))
            [] opcode = op.CEILING -> Unary(s, AndNot32(Add32(b, 63), 63))
            [] opcode \in op.ROUND00 .. op.ROUND11 -> Unary(s, round(s.gs, b))
            [] opcode \in op.NROUND00 .. op.NROUND11 -> Next(s)
            [] opcode \in {op.SROUND, op.S45ROUND} ->
                 PopInto(s, superRound(s.gs, opcode, b))
            [] opcode = op.JROT -> jump(s, 2, a, b # 0)
            [] opcode = op.JROF -> jump(s, 2, a, b = 0)
            [] opcode = op.ROFF -> SetGS(s, Rounding(s.gs, 0, 0, 0))
            [] opcode = op.RUTG -> SetGS(s, Rounding(s.gs, 64, 0, 63))
            [] opcode = op.RDTG -> SetGS(s, Rounding(s.gs, 64, 0, 0))
            [] opcode \in {op.SANGW, op.AA, op.SCANCTRL, op.SCANTYPE} -> Next(Pop(s, 1))
            [] opcode = op.GETINFO -> Unary(s, getinfo(b))
            [] opcode = op.IDEF -> Return(s, "truetype: hinting: unsupported IDEF instruction")
            [] opcode = op.ROLL -> roll(s)
            [] opcode = op.MAX -> Binary(s, IF a < b THEN b ELSE a)
            [] opcode = op.MIN -> Binary(s, IF a > b THEN b ELSE a)
            [] opcode \in op.PUSHB000 .. op.PUSHB111 -> push(s, opcode - (op.PUSHB000 - 1))
            [] opcode \in op.PUSHW000 .. op.PUSHW111 -> push(s, opcode - (op.PUSHW000 - 1) + 128)
            [] opcode \in op.MDRP00000 .. op.MDRP11111 -> mdrp(s, opcode)
            [] opcode \in op.MIRP00000 .. op.MIRP11111 -> mirp(s, opcode)
            [] OTHER -> Return(s, "truetype: hinting: unrecognized instruction")
    IN switch(Op)

\* Step without the test of top against popCount[opcode].
StepUnchecked(s) ==
    IF ~(0 <= s.pc /\ s.pc < Len(s.program)) THEN Return(s, "")
    ELSE LET s1 == [s EXCEPT !.steps = @ + 1]
             opcode == At(s.program, s.pc)
         IN IF s1.steps = maxSteps THEN Return(s1, "truetype: hinting: too many steps")
            ELSE IF popCount[opcode] = q
            THEN Return(s1, "truetype: hinting: unimplemented instruction")
            ELSE Execute(s1, opcode)

\* One iteration of the loop of run; the return of nil when the loop ends.
Step(s) ==
    IF ~(0 <= s.pc /\ s.pc < Len(s.program)) THEN Return(s, "")
    ELSE LET s1 == [s EXCEPT !.steps = @ + 1]
             opcode == At(s.program, s.pc)
         IN IF s1.steps = maxSteps THEN Return(s1, "truetype: hinting: too many steps")
            ELSE IF popCount[opcode] = q
            THEN Return(s1, "truetype: hinting: unimplemented instruction")
            ELSE IF s1.top < popCount[opcode]
            THEN Return(s1, "truetype: hinting: stack underflow")
            ELSE Execute(s1, opcode)

\* RunBegin without the limit on the length of the program.
RunBeginNoLimit(h, program, pCurrent, pUnhinted, pInFontUnits, ends) ==
    [h EXCEPT !.gs = h.defaultGS,
              !.points[glyphZone + 1] = <<pCurrent, pUnhinted, pInFontUnits>>,
              !.ends = ends,
              !.program = program, !.pc = 0, !.top = 0, !.steps = 0,
              !.callStack = <<>>, !.status = "running", !.err = ""]

\* run up to its loop: the graphics state, the glyph zone and the locals are
\* set, and a program of more than 50000 bytes is rejected.
RunBegin(h, program, pCurrent, pUnhinted, pInFontUnits, ends) ==
    LET s == [h EXCEPT !.gs = h.defaultGS,
                       !.points[glyphZone + 1] = <<pCurrent, pUnhinted, pInFontUnits>>,
                       !.ends = ends,
                       !.program = program, !.pc = 0, !.top = 0, !.steps = 0,
                       !.callStack = <<>>, !.status = "running", !.err = ""]
    IN IF Len(program) > maxProgramLen
       THEN Return(s, "truetype: hinting: too many instructions")
       ELSE s

\* The loop of run from the state s to its return; t is the state after one
\* iteration.
RECURSIVE RunToEnd(_)
RunToEnd(s) ==
    IF s.status = "returned" THEN s ELSE CHOOSE r \in {RunToEnd(t) : t \in {Step(s)}} : TRUE

\* Hinter.run as one operation.
run(h, program, pCurrent, pUnhinted, pInFontUnits, ends) ==
    RunToEnd(RunBegin(h, program, pCurrent, pUnhinted, pInFontUnits, ends))

\* resetTwilightPoints: maxTwilightPoints + 4 zero points.
resetTwilightPoints(f) == [k \in 1 .. (f.maxTwilightPoints + 4) |-> ZeroPoint]

\* The length of a slice that init makes for x elements: x rounded up to a
\* multiple of unit, kept when the slice is already long enough.
grown(old, x, unit) ==
    IF x > Len(old) THEN [k \in 1 .. ((x + unit - 1) \div unit) * unit |-> 0] ELSE old

\* init from the rescale test on, if it ran prep in every call.
initRescaleAlways(h, f, scale, rescale) ==
    LET h1 == [h EXCEPT !.scale = scale, !.defaultGS = globalDefaultGS]
        r == IF Len(f.prep) = 0 THEN [h1 EXCEPT !.err = ""]
             ELSE run(h1, f.prep, <<>>, <<>>, <<>>, <<>>)
    IN [r EXCEPT !.status = "ready"]

\* Hinter.init from the rescale test on; err is the error of run, if any.
initRescale(h, f, scale, rescale) ==
    LET h1 == [h EXCEPT !.scale = scale, !.defaultGS = globalDefaultGS]
        prepared(h2) ==
            IF h2.err # "" THEN [h2 EXCEPT !.status = "ready"]
            ELSE [h2 EXCEPT
                    !.defaultGS = [h2.gs EXCEPT
                        !.pv = globalDefaultGS.pv, !.fv = globalDefaultGS.fv,
                        !.dv = globalDefaultGS.dv, !.rp = globalDefaultGS.rp,
                        !.zp = globalDefaultGS.zp, !.loop = globalDefaultGS.loop],
                    !.status = "ready"]
    IN IF ~rescale THEN [h EXCEPT !.status = "ready", !.err = ""]
       ELSE IF Len(f.prep) = 0 THEN [h1 EXCEPT !.status = "ready", !.err = ""]
       ELSE prepared(run(h1, f.prep, <<>>, <<>>, <<>>, <<>>))

\* Hinter.init(f, scale); the result's err is the returned error.
init(h, f, scale) ==
    LET h0 == [h EXCEPT !.points[twilightZone + 1] =
                   <<resetTwilightPoints(f), resetTwilightPoints(f), resetTwilightPoints(f)>>]
        same == h0.font.id = f.id
        h1 == [h0 EXCEPT !.font = f, !.functions = <<>>, !.functionsNil = FALSE,
                         !.stack = grown(@, f.maxStackElements, 256),
                         !.store = grown(@, f.maxStorage, 16)]
        fontSet(h2) ==
            IF ~same /\ Len(f.fpgm) # 0 /\ h2.err # "" THEN [h2 EXCEPT !.status = "ready"]
            ELSE initRescale(h2, f, scale, ~same \/ h0.scale # scale)
    IN fontSet(IF same THEN h0
               ELSE IF Len(f.fpgm) = 0 THEN h1
               ELSE run(h1, f.fpgm, <<>>, <<>>, <<>>, <<>>))

(***************************************************************************)
(* The glyph loader: GlyphBuf.Load, load, loadSimple, loadCompound and     *)
(* addPhantomsAndScale.  A GlyphBuf is a record that also holds the call   *)
(* stack of Load: call is the call of load that is about to be entered and *)
(* frames are the calls of loadCompound that wait for a component.  The    *)
(* Hinter that Load was given is held next to the GlyphBuf; the field      *)
(* hinter of the GlyphBuf tells whether g.hinter is not nil.  A run-time   *)
(* panic of the loader is the error Panic; loads counts the calls of Load  *)
(* where a specification limits them.  CHOOSE r \in {k(x) : x \in {e}} :   *)
(* TRUE is k(e) with the intermediate result e computed once.              *)
(***************************************************************************)
ZeroBounds == [XMin |-> 0, YMin |-> 0, XMax |-> 0, YMax |-> 0]

NoCall == [pending |-> FALSE]

\* The recursion limit of load.
maxRecursion == 32

\* loadOffset: the offset after the number of contours and the bounding box.
loadOffset == 10

\* The flags of a component of a compound glyph.
flagArg1And2AreWords == 1

flagArgsAreXYValues == 2

flagRoundXYToGrid == 4

flagWeHaveAScale == 8

flagMoreComponents == 32

flagWeHaveAnXAndYScale == 64

flagWeHaveATwoByTwo == 128

flagUseMyMetrics == 512

\* NewGlyphBuf(): no points and no contours.
NewGlyphBuf ==
    [B |-> ZeroBounds, Point |-> <<>>, Unhinted |-> <<>>, InFontUnits |-> <<>>,
     End |-> <<>>, font |-> NilFont, hinter |-> FALSE, scale |-> 0, pp1x |-> 0,
     metricsSet |-> FALSE, tmp |-> <<>>, index |-> 0, call |-> NoCall, frames |-> <<>>,
     loads |-> 0, status |-> "ready", err |-> NoError]

\* How Load ends when init or run of the hinter ended with e: an error that the
\* hinter returned is returned by Load; a run-time panic of the hinter is not
\* recovered and unwinds through load and Load as the panic it is.
HintError(e) ==
    IF e = "panic: nil pointer dereference"
    THEN [kind |-> "panic", msg |-> "nil pointer dereference"]
    ELSE IF e = "panic: integer divide by zero"
    THEN [kind |-> "panic", msg |-> "integer divide by zero"]
    ELSE IF e = "panic: assignment to entry in nil map"
    THEN [kind |-> "panic", msg |-> "assignment to entry in nil map"]
    ELSE IF e \in {"panic: index out of range", "panic: stack index out of range"}
    THEN [kind |-> "panic", msg |-> "index out of range"]
    ELSE [kind |-> "hinter", msg |-> e]

\* The loader and its hinter end the current call of load with the error e.
Fail(m, e) == [m EXCEPT !.g.err = e, !.g.call = NoCall]

\* The bytes of a table with the bytes that follow it in its array: a slice
\* of the table may reach into them.
Backing(f) == f.glyf \o f.glyfTail

\* g.font.glyf[g0:g1] as the bytes b from g0 to the end of the array and the
\* length n of the slice; "empty" when g0 = g1.  g0 and g1 are uint32 values
\* and index the slice as such.
glyphData(f, i) ==
    LET U32Of(x) == [hi |-> x \div 65536, lo |-> x % 65536]
        slice(g0, g1) ==
            IF g0 = g1 THEN [kind |-> "empty"]
            ELSE IF U32Less(g1, g0) \/ IntAbove(g1, Len(Backing(f))) THEN [kind |-> "panic"]
            ELSE [kind |-> "ok",
                  glyf |-> [b |-> Slice(Backing(f), IntValue(g0), Len(Backing(f))),
                            n |-> IntValue(g1) - IntValue(g0)]]
    IN IF f.locaOffsetFormat = locaOffsetFormatShort
       THEN IF ~CanRead(f.loca, 2 * i, 4) THEN [kind |-> "panic"]
            ELSE slice(U32Of(2 * U16At(f.loca, 2 * i)), U32Of(2 * U16At(f.loca, 2 * i + 2)))
       ELSE IF ~CanRead(f.loca, 4 * i, 8) THEN [kind |-> "panic"]
            ELSE slice(U32At(f.loca, 4 * i), U32At(f.loca, 4 * i + 4))

\* Whether the k bytes at off are within the length of the slice glyf.
InGlyf(glyf, off, k) == off >= 0 /\ off + k <= glyf.n

\* int16(u16(glyf, off)).
I16At(glyf, off) == Wrap16(U16At(glyf.b, off))

\* Font.unscaledHMetric(i); ok is FALSE when a read of hmtx panics.
unscaledHMetric(f, i) ==
    LET at(pa, pl) ==
            IF ~CanRead(f.hmtx, pa, 2) \/ ~CanRead(f.hmtx, pl, 2)
            THEN [ok |-> FALSE, AdvanceWidth |-> 0, LeftSideBearing |-> 0]
            ELSE [ok |-> TRUE, AdvanceWidth |-> U16At(f.hmtx, pa),
                  LeftSideBearing |-> Wrap16(U16At(f.hmtx, pl))]
    IN IF i >= f.nGlyph THEN [ok |-> TRUE, AdvanceWidth |-> 0, LeftSideBearing |-> 0]
       ELSE IF i >= f.nHMetric
       THEN at(4 * (f.nHMetric - 1), 4 * (f.nHMetric - 1) + 2 * (i - f.nHMetric) + 4)
       ELSE at(4 * i, 4 * i + 2)

\* Font.unscaledVMetric(i, yMax): the entry of vmtx, or the height of the em
\* without a bearing when vmtx has no entry for the glyph.
unscaledVMetric(f, i, yMax) ==
    IF i >= f.nGlyph THEN [AdvanceHeight |-> 0, TopSideBearing |-> 0]
    ELSE IF CanRead(f.vmtx, 4 * i, 4)
    THEN [AdvanceHeight |-> U16At(f.vmtx, 4 * i),
          TopSideBearing |-> Wrap16(U16At(f.vmtx, 4 * i + 2))]
    ELSE [AdvanceHeight |-> f.unitsPerEm, TopSideBearing |-> 0]

\* The first loop of loadSimple: ne contour ends are appended to End.
RECURSIVE simpleEnds(_, _, _, _)
simpleEnds(glyf, offset, ne, End) ==
    IF ne <= 0 THEN [ok |-> TRUE, offset |-> offset, End |-> End]
    ELSE IF ~InGlyf(glyf, offset, 2) THEN [ok |-> FALSE, offset |-> offset, End |-> End]
    ELSE simpleEnds(glyf, offset + 2, ne - 1, Append(End, 1 + U16At(glyf.b, offset)))

\* The loop of loadSimple that decodes the flags, from the point i on.
RECURSIVE simpleFlags(_, _, _, _, _)
simpleFlags(glyf, offset, Point, i, np1) ==
    IF i >= np1 THEN [ok |-> TRUE, offset |-> offset, Point |-> Point]
    ELSE IF ~InGlyf(glyf, offset, 1) THEN [ok |-> FALSE, offset |-> offset, Point |-> Point]
    ELSE LET c == At(glyf.b, offset)
             p == [X |-> 0, Y |-> 0, Flags |-> c]
         IN IF And32(c, flagRepeat) = 0
            THEN simpleFlags(glyf, offset + 1, Append(Point, p), i + 1, np1)
            ELSE IF ~InGlyf(glyf, offset + 1, 1)
            THEN [ok |-> FALSE, offset |-> offset + 1, Point |-> Append(Point, p)]
            ELSE simpleFlags(glyf, offset + 2,
                             Point \o [k \in 1 .. (1 + At(glyf.b, offset + 1)) |-> p],
                             i + 1 + At(glyf.b, offset + 1), np1)

\* The loops of loadSimple that decode the co-ordinates, from the point i on;
\* v is the int16 x or y of the point before.
RECURSIVE simpleCoords(_, _, _, _, _, _, _)
simpleCoords(glyf, offset, Point, i, np1, v, isY) ==
    IF i >= np1 THEN [ok |-> TRUE, offset |-> offset, Point |-> Point]
    ELSE LET f == Point[i + 1].Flags
             short == And32(f, IF isY THEN flagYShortVector ELSE flagXShortVector) # 0
             positive ==
                 And32(f, IF isY THEN flagPositiveYShortVector
                          ELSE flagPositiveXShortVector) # 0
             fail == [ok |-> FALSE, offset |-> offset, Point |-> Point]
             set(x, off) ==
                 CHOOSE r \in {simpleCoords(glyf, off,
                                            [Point EXCEPT ![i + 1] = SetCoord(@, isY, w)],
                                            i + 1, np1, w, isY) : w \in {x}} : TRUE
         IN IF short
            THEN IF ~InGlyf(glyf, offset, 1) THEN fail
                 ELSE set(Wrap16(IF positive THEN v + At(glyf.b, offset)
                                 ELSE v - At(glyf.b, offset)), offset + 1)
            ELSE IF ~positive
            THEN IF ~InGlyf(glyf, offset, 2) THEN fail
                 ELSE set(Wrap16(v + I16At(glyf, offset)), offset + 2)
            ELSE set(v, offset)

\* GlyphBuf.loadSimple(glyf, ne): the GlyphBuf after it and the program; ok is
\* FALSE when it panics.
loadSimple(g, glyf, ne) ==
    LET np0 == Len(g.Point)
        fail(g1) == [ok |-> FALSE, g |-> g1, program |-> <<>>]
        decodedY(g1, program, r) ==
            IF ~r.ok THEN fail([g1 EXCEPT !.Point = r.Point])
            ELSE [ok |-> TRUE, g |-> [g1 EXCEPT !.Point = r.Point], program |-> program]
        decodedX(g1, program, np1, r) ==
            IF ~r.ok THEN fail([g1 EXCEPT !.Point = r.Point])
            ELSE CHOOSE d \in {decodedY(g1, program, y) :
                               y \in {simpleCoords(glyf, r.offset, r.Point, np0, np1, 0,
                                                   TRUE)}} : TRUE
        flags(g1, program, np1, r) ==
            IF ~r.ok THEN fail([g1 EXCEPT !.Point = r.Point])
            ELSE CHOOSE d \in {decodedX(g1, program, np1, x) :
                               x \in {simpleCoords(glyf, r.offset, r.Point, np0, np1, 0,
                                                   FALSE)}} : TRUE
        instructions(g1, offset) ==
            IF ~InGlyf(glyf, offset, 2) THEN fail(g1)
            ELSE LET instrLen == U16At(glyf.b, offset)
                     np1 == np0 + g1.End[Len(g1.End)]
                 IN IF offset + 2 + instrLen > Len(glyf.b) \/ Len(g1.End) = 0 THEN fail(g1)
                    ELSE CHOOSE d \in
                             {flags(g1, Slice(glyf.b, offset + 2, offset + 2 + instrLen),
                                    np1, fl) :
                                 fl \in {simpleFlags(glyf, offset + 2 + instrLen, g1.Point,
                                                     np0, np1)}} : TRUE
        ends(r) ==
            IF ~r.ok THEN fail([g EXCEPT !.End = r.End])
            ELSE instructions([g EXCEPT !.End = r.End], r.offset)
    IN CHOOSE d \in {ends(e) : e \in {simpleEnds(glyf, loadOffset, ne, g.End)}} : TRUE

\* x rounded to the grid: (x + 32) &^ 63.
RoundToGrid(x) == AndNot32(Add32(x, 32), 63)

\* GlyphBuf.addPhantomsAndScale(b, uhm, i, np0, simple).
addPhantomsAndScale(g, b, uhm, i, np0, simple) ==
    LET uvm == unscaledVMetric(g.font, i, b.YMax)
        keep == simple /\ g.hinter
        phantoms ==
            <<[X |-> b.XMin - uhm.LeftSideBearing, Y |-> 0, Flags |-> 0],
              [X |-> b.XMin - uhm.LeftSideBearing + uhm.AdvanceWidth, Y |-> 0, Flags |-> 0],
              [X |-> uhm.AdvanceWidth \div 2, Y |-> b.YMax + uvm.TopSideBearing,
               Flags |-> 0],
              [X |-> uhm.AdvanceWidth \div 2,
               Y |-> b.YMax + uvm.TopSideBearing - uvm.AdvanceHeight, Flags |-> 0]>>
        scaled(P) ==
            [k \in 1 .. Len(P) |->
                IF k <= np0 THEN P[k]
                ELSE [P[k] EXCEPT !.X = FontScale(g.font, Mul32(g.scale, @)),
                                  !.Y = FontScale(g.font, Mul32(g.scale, @))]]
        shifted(P, dx) ==
            IF ~keep \/ dx = 0 THEN P
            ELSE [k \in 1 .. Len(P) |->
                    IF k <= np0 THEN P[k] ELSE [P[k] EXCEPT !.X = Add32(@, dx)]]
        rounded(P) ==
            [P EXCEPT ![Len(P) - 2].X = RoundToGrid(@), ![Len(P)].Y = RoundToGrid(@)]
        kept(P) ==
            [g EXCEPT !.Point = rounded(P),
                      !.InFontUnits =
                          IF keep THEN @ \o Slice(g.Point \o phantoms, np0, Len(P)) ELSE @,
                      !.Unhinted = IF keep THEN @ \o Slice(P, np0, Len(P)) ELSE @]
        grid(P) ==
            CHOOSE r \in
                {kept(S) :
                    S \in {shifted(P, Sub32(RoundToGrid(P[Len(P) - 3].X), P[Len(P) - 3].X))}} :
                TRUE
    IN CHOOSE r \in {grid(P) : P \in {scaled(g.Point \o phantoms)}} : TRUE

\* The end of load (the metrics of the glyph are set when they are to be
\* used and none were set yet) and its return of nil to its caller.
setMetrics(g, b, pp1x, useMyMetrics) ==
    IF useMyMetrics /\ ~g.metricsSet
    THEN [g EXCEPT !.metricsSet = TRUE,
                   !.B = [XMin |-> FontScale(g.font, Mul32(g.scale, b.XMin)),
                          YMin |-> FontScale(g.font, Mul32(g.scale, b.YMin)),
                          XMax |-> FontScale(g.font, Mul32(g.scale, b.XMax)),
                          YMax |-> FontScale(g.font, Mul32(g.scale, b.YMax))],
                   !.pp1x = pp1x]
    ELSE g

\* The end of the branch of load for a simple glyph that was entered in the
\* state m: the phantom points are dropped, np0 is added to the new entries
\* of End, and load returns nil.
simpleLoaded(m, g1, h1, b, pp1x) ==
    LET np0 == Len(m.g.Point)
        ne0 == Len(m.g.End)
        dropped ==
            [g1 EXCEPT
                !.InFontUnits = IF g1.hinter THEN SubSeq(@, 1, Len(@) - 4) ELSE @,
                !.Unhinted = IF g1.hinter THEN SubSeq(@, 1, Len(@) - 4) ELSE @,
                !.Point = SubSeq(@, 1, Len(@) - 4),
                !.End = [k \in 1 .. Len(@) |-> IF k > ne0 THEN @[k] + np0 ELSE @[k]]]
    IN [g |-> [setMetrics(dropped, b, pp1x, m.g.call.useMyMetrics) EXCEPT !.call = NoCall],
        h |-> h1]

\* The branch of load for a simple glyph after g.hinter.run has returned or
\* panicked: the slices that run was given are those of the Hinter h1.
simpleHinted(m, g1, h1, b, pp1x) ==
    LET np0 == Len(m.g.Point)
        g2 == [g1 EXCEPT
                  !.Point = SubSeq(@, 1, np0) \o h1.points[glyphZone + 1][current + 1],
                  !.Unhinted = SubSeq(@, 1, np0) \o h1.points[glyphZone + 1][unhinted + 1],
                  !.InFontUnits =
                      SubSeq(@, 1, np0) \o h1.points[glyphZone + 1][inFontUnits + 1]]
    IN IF h1.err # "" THEN Fail([g |-> g2, h |-> h1], HintError(h1.err))
       ELSE simpleLoaded(m, g2, h1, b, pp1x)

\* The branch of load for a simple glyph after addPhantomsAndScale: the
\* program of the glyph is run when there is a hinter and a program.
simpleHint(m, g1, program, b) ==
    LET np0 == Len(m.g.Point)
        ne0 == Len(m.g.End)
        pp1x == g1.Point[Len(g1.Point) - 3].X
    IN IF ~g1.hinter \/ Len(program) = 0 THEN simpleLoaded(m, g1, m.h, b, pp1x)
       ELSE IF np0 > Len(g1.Unhinted) \/ np0 > Len(g1.InFontUnits)
       THEN Fail([m EXCEPT !.g = g1], Panic)
       ELSE CHOOSE r \in
                {simpleHinted(m, g1, h1, b, pp1x) :
                    h1 \in {run(m.h, program, Slice(g1.Point, np0, Len(g1.Point)),
                                Slice(g1.Unhinted, np0, Len(g1.Unhinted)),
                                Slice(g1.InFontUnits, np0, Len(g1.InFontUnits)),
                                Slice(g1.End, ne0, Len(g1.End)))}} : TRUE

\* The branch of load for a simple glyph after loadSimple has returned r.
simplePhantoms(m, r, b, uhm) ==
    IF ~r.ok THEN Fail([m EXCEPT !.g = r.g], Panic)
    ELSE CHOOSE d \in
             {simpleHint(m, g1, r.program, b) :
                 g1 \in {addPhantomsAndScale(r.g, b, uhm, m.g.call.i, Len(m.g.Point),
                                             TRUE)}} : TRUE

\* The branch of load for a simple glyph, up to the return of load.
loadSimpleGlyph(m, glyf, ne, b, uhm) ==
    CHOOSE d \in {simplePhantoms(m, r, b, uhm) : r \in {loadSimple(m.g, glyf, ne)}} : TRUE

\* The head of the loop of loadCompound: the flags, the glyph, the offsets
\* and the transform of the component at offset.
component(glyf, offset) ==
    LET flags == U16At(glyf.b, offset)
        words == And32(flags, flagArg1And2AreWords) # 0
        args == IF words THEN offset + 8 ELSE offset + 6
        size == IF And32(flags, flagWeHaveAScale) # 0 THEN 2
                ELSE IF And32(flags, flagWeHaveAnXAndYScale) # 0 THEN 4
                ELSE IF And32(flags, flagWeHaveATwoByTwo) # 0 THEN 8
                ELSE 0
        transform ==
            IF And32(flags, flagWeHaveAScale) # 0
            THEN <<I16At(glyf, args), 0, 0, I16At(glyf, args)>>
            ELSE IF And32(flags, flagWeHaveAnXAndYScale) # 0
            THEN <<I16At(glyf, args), 0, 0, I16At(glyf, args + 2)>>
            ELSE IF And32(flags, flagWeHaveATwoByTwo) # 0
            THEN <<I16At(glyf, args), I16At(glyf, args + 2), I16At(glyf, args + 4),
                   I16At(glyf, args + 6)>>
            ELSE <<0, 0, 0, 0>>
    IN IF ~InGlyf(glyf, offset, IF ~InGlyf(glyf, offset, 2) \/ ~words THEN 6 ELSE 8)
       THEN [kind |-> "panic"]
       ELSE IF And32(flags, flagArgsAreXYValues) = 0 THEN [kind |-> "unsupported"]
       ELSE IF ~InGlyf(glyf, args, size) THEN [kind |-> "panic"]
       ELSE [kind |-> "ok", flags |-> flags, component |-> U16At(glyf.b, offset + 2),
             dx |-> IF words THEN I16At(glyf, offset + 4) ELSE Wrap8(At(glyf.b, offset + 4)),
             dy |-> IF words THEN I16At(glyf, offset + 6) ELSE Wrap8(At(glyf.b, offset + 5)),
             transform |-> transform, hasTransform |-> size # 0, offset |-> args + size]

\* The loop of loadCompound up to its call of load for the component at the
\* offset of the topmost frame.
nextComponent(m) ==
    LET n == Len(m.g.frames)
        fr == m.g.frames[n]
        read(r) ==
            IF r.kind = "panic" THEN Fail(m, Panic)
            ELSE IF r.kind = "unsupported"
            THEN Fail(m, UnsupportedError("compound glyph transform vector"))
            ELSE [m EXCEPT
                    !.g.frames[n].offset = r.offset,
                    !.g.frames[n].c =
                        [flags |-> r.flags, dx |-> r.dx, dy |-> r.dy,
                         transform |-> r.transform, hasTransform |-> r.hasTransform,
                         np0 |-> Len(m.g.Point)],
                    !.g.call = [pending |-> TRUE, recursion |-> fr.recursion + 1,
                                i |-> r.component,
                                useMyMetrics |-> fr.useMyMetrics
                                                 /\ And32(r.flags, flagUseMyMetrics) # 0]]
    IN CHOOSE d \in {read(r) : r \in {component(fr.glyf, fr.offset)}} : TRUE

\* The branch of load for a compound glyph: the call of loadCompound up to
\* its call of load for the first component.
loadCompoundGlyph(m, glyf, b, uhm) ==
    LET c == m.g.call
        frame ==
            [recursion |-> c.recursion, i |-> c.i, useMyMetrics |-> c.useMyMetrics,
             b |-> b, uhm |-> uhm, glyf |-> glyf,
             pp1x |-> FontScale(m.g.font, Mul32(m.g.scale, b.XMin - uhm.LeftSideBearing)),
             np0 |-> Len(m.g.Point), ne0 |-> Len(m.g.End),
             offset |-> loadOffset, c |-> [flags |-> 0]]
    IN CHOOSE d \in
           {nextComponent(m1) :
               m1 \in {[m EXCEPT !.g.call = NoCall, !.g.frames = Append(@, frame)]}} : TRUE

\* load after it has decoded the number of contours ne, the bounds b and the
\* horizontal metric uhm of the glyph.
loadContours(m, glyf, ne, b, uhm) ==
    IF ~uhm.ok THEN Fail(m, Panic)
    ELSE IF ne < 0
    THEN IF ne # -1 THEN Fail(m, UnsupportedError("negative number of contours"))
         ELSE loadCompoundGlyph(m, glyf, b, uhm)
    ELSE loadSimpleGlyph(m, glyf, ne, b, uhm)

\* load after it has found the slice glyf of g.font.glyf.
loadHeader(m, glyf) ==
    IF ~InGlyf(glyf, 0, loadOffset) THEN Fail(m, Panic)
    ELSE CHOOSE d \in
             {loadContours(m, glyf, I16At(glyf, 0), b, uhm) :
                 b \in {[XMin |-> I16At(glyf, 2), YMin |-> I16At(glyf, 4),
                         XMax |-> I16At(glyf, 6), YMax |-> I16At(glyf, 8)]},
                 uhm \in {unscaledHMetric(m.g.font, m.g.call.i)}} : TRUE

\* load after its test of the recursion limit: to its return, or to the call
\* of load for the first component of a compound glyph.
loadGlyph(m) ==
    CHOOSE r \in
        {IF d.kind = "panic" THEN Fail(m, Panic)
         ELSE IF d.kind = "empty" THEN [m EXCEPT !.g.call = NoCall]
         ELSE loadHeader(m, d.glyf) :
            d \in {glyphData(m.g.font, m.g.call.i)}} : TRUE

\* load without the recursion limit.
loadUnlimited(m) == loadGlyph(m)

\* load(recursion, i, useMyMetrics) from its entry on: the call of the
\* GlyphBuf is the call that is entered.
load(m) ==
    IF m.g.call.recursion >= maxRecursion
    THEN Fail(m, UnsupportedError("excessive compound glyph recursion"))
    ELSE loadGlyph(m)

\* The return of nil by loadCompound and by the load that called it.
compoundLoaded(m) ==
    LET fr == m.g.frames[Len(m.g.frames)]
    IN [m EXCEPT !.g = [setMetrics(m.g, fr.b, fr.pp1x, fr.useMyMetrics) EXCEPT
                           !.frames = SubSeq(@, 1, Len(@) - 1)]]

\* The entries of End after the first ne0, moved by d.
relativeEnd(End, ne0, d) == [k \in 1 .. Len(End) |-> IF k > ne0 THEN End[k] + d ELSE End[k]]

\* loadCompound after g.hinter.run has returned or panicked: the slices that
\* run was given are those of the Hinter h1.
compoundHinted(m, g1, h1, points) ==
    LET fr == m.g.frames[Len(m.g.frames)]
        g2 == [g1 EXCEPT
                  !.Point = SubSeq(@, 1, fr.np0)
                            \o SubSeq(h1.points[glyphZone + 1][current + 1], 1,
                                      Len(points) - 4),
                  !.tmp = h1.points[glyphZone + 1][unhinted + 1]]
    IN IF h1.err # "" THEN Fail([g |-> g2, h |-> h1], HintError(h1.err))
       ELSE compoundLoaded([g |-> [g2 EXCEPT !.End = relativeEnd(@, fr.ne0, fr.np0)],
                            h |-> h1])

\* loadCompound runs the program of the compound glyph on the copy points of
\* its points, with the entries of End relative to the compound glyph.
compoundHint(m, g1, program, points) ==
    LET fr == m.g.frames[Len(m.g.frames)]
    IN CHOOSE r \in
           {compoundHinted(m,
                           [g1 EXCEPT
                               !.Point = SubSeq(@, 1, fr.np0)
                                         \o SubSeq(points, 1, Len(points) - 4),
                               !.End = relativeEnd(@, fr.ne0, -fr.np0),
                               !.tmp = points],
                           h1, points) :
               h1 \in {run(m.h, program, points, points, points,
                           Slice(relativeEnd(g1.End, fr.ne0, -fr.np0), fr.ne0,
                                 Len(g1.End)))}} : TRUE

\* loadCompound after addPhantomsAndScale: the points of the compound glyph
\* are copied with their touched flags cleared.
compoundPhantoms(m, g1, program) ==
    LET np0 == m.g.frames[Len(m.g.frames)].np0
    IN CHOOSE r \in
           {compoundHint(m, g1, program, points) :
               points \in {[k \in 1 .. (Len(g1.Point) - np0) |->
                               [g1.Point[np0 + k] EXCEPT
                                   !.Flags = AndNot32(@, flagTouchedX + flagTouchedY)]]}} :
           TRUE

\* loadCompound after its loop: the compound glyph is hinted.
hintCompound(m) ==
    LET fr == m.g.frames[Len(m.g.frames)]
        glyf == fr.glyf
        offset == fr.offset + 2
        instrLen == U16At(glyf.b, fr.offset)
    IN IF ~m.g.hinter \/ fr.offset + 2 > glyf.n THEN compoundLoaded(m)
       ELSE IF instrLen = 0 THEN compoundLoaded(m)
       ELSE IF offset + instrLen > Len(glyf.b) THEN Fail(m, Panic)
       ELSE CHOOSE r \in
                {compoundPhantoms(m, g1, Slice(glyf.b, offset, offset + instrLen)) :
                    g1 \in {addPhantomsAndScale(m.g, fr.b, fr.uhm, fr.i, Len(m.g.Point),
                                                FALSE)}} : TRUE

\* The loop of loadCompound after load has returned nil for a component: the
\* points of the component are transformed and moved, and the loop goes on
\* or ends.
componentLoaded(m) ==
    LET fr == m.g.frames[Len(m.g.frames)]
        c == fr.c
        t == c.transform
        half(v) == Shr(v + 8192, 14)
        transformed(p) ==
            IF ~c.hasTransform THEN p
            ELSE [p EXCEPT !.X = Add32(half(p.X * t[1]), half(p.Y * t[3])),
                           !.Y = Add32(half(p.X * t[2]), half(p.Y * t[4]))]
        grid(d) == IF And32(c.flags, flagRoundXYToGrid) # 0 THEN RoundToGrid(d) ELSE d
        moved(p, dx, dy) == [p EXCEPT !.X = Add32(@, dx), !.Y = Add32(@, dy)]
    IN CHOOSE r \in
           {IF And32(c.flags, flagMoreComponents) # 0 THEN nextComponent(m1)
            ELSE hintCompound(m1) :
               m1 \in {[m EXCEPT !.g.Point =
                           [k \in 1 .. Len(@) |->
                               IF k <= c.np0 THEN @[k]
                               ELSE moved(transformed(@[k]),
                                          grid(FontScale(m.g.font, Mul32(m.g.scale, c.dx))),
                                          grid(FontScale(m.g.font,
                                                         Mul32(m.g.scale, c.dy))))]]}} : TRUE

\* The end of Load after load has returned nil: the points are moved by pp1x.
LoadEnd(m) ==
    [m EXCEPT !.g.Point = [k \in 1 .. Len(@) |->
                              IF m.g.pp1x # 0 THEN [@[k] EXCEPT !.X = Sub32(@, m.g.pp1x)]
                              ELSE @[k]],
              !.g.status = "returned"]

\* The return of an error: by loadCompound and the load that called it to
\* the caller of that load, and by Load to its caller.
returnError(m) ==
    IF Len(m.g.frames) = 0 THEN [m EXCEPT !.g.status = "returned"]
    ELSE [m EXCEPT !.g.frames = SubSeq(@, 1, Len(@) - 1)]

\* One step of Load after its call of h.init: a return of an error, a call
\* of load up to its return or to its call of load for a component, the loop
\* of loadCompound from the return of a component on, or the end of Load.
loadStep(m) ==
    IF m.g.err # NoError THEN returnError(m)
    ELSE IF m.g.call.pending THEN load(m)
    ELSE IF Len(m.g.frames) # 0 THEN componentLoaded(m)
    ELSE LoadEnd(m)

\* Load without the reset of g.End.
LoadBeginKeepEnd(g, h, f, scale, i, hinted) ==
    LET g0 == [g EXCEPT !.B = ZeroBounds, !.Point = <<>>, !.Unhinted = <<>>,
                        !.InFontUnits = <<>>, !.font = f, !.hinter = hinted,
                        !.scale = scale, !.pp1x = 0, !.metricsSet = FALSE, !.index = i,
                        !.call = [pending |-> TRUE, recursion |-> 0, i |-> i,
                                  useMyMetrics |-> TRUE],
                        !.frames = <<>>, !.status = "loading", !.err = NoError]
        initialised(h1) ==
            IF h1.err # ""
            THEN [g |-> [g0 EXCEPT !.call = NoCall, !.err = HintError(h1.err)], h |-> h1]
            ELSE [g |-> g0, h |-> h1]
    IN IF hinted THEN initialised(init(h, f, scale)) ELSE [g |-> g0, h |-> h]

\* GlyphBuf.Load(f, scale, i, h) up to its call of load; hinted tells whether
\* h is not nil.  An error of h.init is returned by the next step, and a
\* run-time panic of h.init leaves Load as that panic by the next step.
LoadBegin(g, h, f, scale, i, hinted) ==
    LET g0 == [g EXCEPT !.B = ZeroBounds, !.Point = <<>>, !.Unhinted = <<>>,
                        !.InFontUnits = <<>>, !.End = <<>>, !.font = f, !.hinter = hinted,
                        !.scale = scale, !.pp1x = 0, !.metricsSet = FALSE, !.index = i,
                        !.call = [pending |-> TRUE, recursion |-> 0, i |-> i,
                                  useMyMetrics |-> TRUE],
                        !.frames = <<>>, !.status = "loading", !.err = NoError]
        initialised(h1) ==
            IF h1.err # ""
            THEN [g |-> [g0 EXCEPT !.call = NoCall, !.err = HintError(h1.err)], h |-> h1]
            ELSE [g |-> g0, h |-> h1]
    IN IF hinted THEN initialised(init(h, f, scale)) ELSE [g |-> g0, h |-> h]

\* Load from the state m to its return.
RECURSIVE LoadToEnd(_)
LoadToEnd(m) == IF m.g.status = "returned" THEN m ELSE LoadToEnd(loadStep(m))

(***************************************************************************)
(* Idle values of the other subsystems' variables.                         *)
(***************************************************************************)
FontIdle == ttf = <<>> /\ parsed = ParsedIdle /\ query = NoQuery

LoadIdle == gbuf = NewGlyphBuf /\ hinter = NewHinter

RunIdle == hint = NewHinter

PaintIdle == paint = [kind |-> "idle"]

DrawIdle == raster = [kind |-> "idle"]

ContextIdle == ctx = [kind |-> "idle"]

RasterIdle == PaintIdle /\ DrawIdle /\ ContextIdle

(***************************************************************************)
(* SpecFace: NewFace with every Options value, then one Glyph call.        *)
(***************************************************************************)
InitFace == FaceIdle /\ FontIdle /\ LoadIdle /\ RunIdle /\ RasterIdle

NextFace ==
    /\ \/ \E o \in FaceOptions : NewFace(o)
       \/ \E dot \in Dots : FaceGlyph(dot)
    /\ UNCHANGED <<ttf, parsed, query, gbuf, hinter, hint, paint, raster, ctx>>

SpecFace == InitFace /\ [][NextFace]_vars

(***************************************************************************)
(* SpecFont: Parse of one of the files in a build with either width of    *)
(* int, then Index and Kerning calls on the font it returned.              *)
(***************************************************************************)
InitFont == FaceIdle /\ FontIdle /\ LoadIdle /\ RunIdle /\ RasterIdle

NextFont ==
    /\ \/ \E t \in FontFiles, bits \in IntSizes : ParseFile(t, bits)
       \/ \E x \in Runes : CallIndex(x)
       \/ \E i0 \in KernIndices, i1 \in KernIndices : CallKerning(i0, i1)
    /\ UNCHANGED <<face, glyphOut, gbuf, hinter, hint, paint, raster, ctx>>

SpecFont == InitFont /\ [][NextFont]_vars


(***************************************************************************)
(* SpecRun: a Hinter is initialised for a font and a scale with init, and  *)
(* runs bytecode programs, one loop iteration of run at a time.            *)
(***************************************************************************)
MaxRuns == 1

\* A Font as far as the hinter reads it.
HintFont(id, maxStackElements, maxStorage, fpgm, prep, cvt_) ==
    [NilFont EXCEPT !.id = id, !.unitsPerEm = 64, !.maxStackElements = maxStackElements,
                    !.maxStorage = maxStorage, !.maxTwilightPoints = 2,
                    !.fpgm = fpgm, !.prep = prep, !.cvt = cvt_]

\* The font of TestBytecode; a font whose fpgm defines function 0 and whose prep
\* calls it and selects rounding to the half grid; a font without stack;
\* fonts whose fpgm or prep fails; a font with the control values 33 and -32.
HintFonts ==
    {HintFont(1, 100, 32, <<>>, <<>>, <<>>),
     HintFont(2, 200, 4, <<Op.PUSHB000, 0, Op.FDEF, Op.PUSHB000, 7, Op.ENDF>>,
              <<Op.PUSHB000, 0, Op.CALL, Op.RTHG, Op.PUSHB000, 2, Op.SLOOP>>,
              <<0, 64, 255, 224, 0>>),
     HintFont(3, 0, 0, <<>>, <<>>, <<>>),
     HintFont(4, 16, 0, <<Op.DUP>>, <<>>, <<>>),
     HintFont(5, 16, 0, <<>>, <<Op.PUSHB000, 0, Op.SLOOP>>, <<>>),
     HintFont(6, 16, 4, <<>>, <<>>, <<0, 33, 255, 224>>)}

HintScales == {640, 768}

\* n bytes, all of them b.
Bytes(n, b) == [k \in 1 .. n |-> b]

\* A program that leaves n elements on the stack (n <= 255).
Fill(n) == <<Op.NPUSHB, n>> \o Bytes(n, 1)

\* The programs of TestBytecode (hint_test.go), in its order, but for 'infinite loop', which
\* is the first of BudgetPrograms.
TestPrograms ==
    {<<Op.DUP>>,
     <<Op.PUSHB000, 0, Op.IF_>>,
     <<Op.SVTCA1, Op.GPV, Op.SVTCA0, Op.GFV, Op.NEG, Op.SPVFS, Op.SFVTPV, Op.PUSHB000, 1, Op.GFV,
       Op.PUSHB000, 2>>,
     <<Op.PUSHB001, 10, 2, Op.JMPR, Op.DUP, Op.DUP, Op.PUSHB010, 20, 2, 1, Op.JROT, Op.DUP,
       Op.DUP, Op.PUSHB010, 30, 2, 1, Op.JROF, Op.DUP, Op.DUP>>,
     <<Op.PUSHB010, 10, 20, 30, Op.CLEAR, Op.PUSHB010, 40, 50, 60, Op.SWAP, Op.DUP, Op.DUP,
       Op.POP, Op.DEPTH, Op.CINDEX, Op.PUSHB000, 4, Op.MINDEX>>,
     <<Op.PUSHB000, 255, Op.PUSHW001, 255, 254, 0, 253, Op.NPUSHB, 2, 1, 2, Op.NPUSHW, 3, 4, 5, 6,
       7, 8, 9>>,
     <<Op.PUSHB011, 1, 22, 3, 44, Op.WS, Op.WS, Op.PUSHB000, 3, Op.RS>>,
     <<Op.PUSHB001, 10, 20, Op.LT, Op.PUSHB001, 10, 20, Op.LTEQ, Op.PUSHB001, 10, 20, Op.GT,
       Op.PUSHB001, 10, 20, Op.GTEQ, Op.EQ, Op.NEQ>>,
     <<Op.PUSHB000, 159, Op.ODD, Op.PUSHB000, 160, Op.ODD, Op.PUSHB000, 128, Op.EVEN, Op.PUSHB000,
       64, Op.EVEN>>,
     <<Op.PUSHB001, 255, 1, Op.IF_, Op.PUSHB000, 2, Op.EIF, Op.PUSHB000, 254>>,
     <<Op.PUSHB001, 255, 0, Op.IF_, Op.PUSHB000, 2, Op.EIF, Op.PUSHB000, 254>>,
     <<Op.PUSHB000, 1, Op.IF_, Op.PUSHB000, 2, Op.ELSE_, Op.PUSHB000, 3, Op.EIF>>,
     <<Op.PUSHB000, 0, Op.IF_, Op.PUSHB000, 2, Op.ELSE_, Op.PUSHB000, 3, Op.EIF>>,
     <<Op.PUSHB010, 255, 0, 1, Op.IF_, Op.IF_, Op.PUSHB001, 88, 88, Op.ELSE_, Op.PUSHW000, 88, 88,
       Op.EIF, Op.ELSE_, Op.IF_, Op.NPUSHB, 3, 88, 88, 88, Op.ELSE_, Op.NPUSHW, 2, 88, 88, 88, 88,
       Op.EIF, Op.EIF, Op.PUSHB000, 254>>,
     <<Op.PUSHB010, 255, 1, 0, Op.IF_, Op.IF_, Op.PUSHB001, 88, 88, Op.ELSE_, Op.PUSHW000, 88, 88,
       Op.EIF, Op.ELSE_, Op.IF_, Op.NPUSHB, 3, 88, 88, 88, Op.ELSE_, Op.NPUSHW, 2, 88, 88, 88, 88,
       Op.EIF, Op.EIF, Op.PUSHB000, 254>>,
     <<Op.PUSHB010, 0, 10, 20, Op.AND, Op.OR, Op.NOT>>,
     <<Op.PUSHB010, 64, 128, 192, Op.MUL, Op.SUB, Op.NEG, Op.PUSHB000, 128, Op.DIV, Op.PUSHB000,
       1, Op.ADD, Op.ABS>>,
     <<Op.PUSHB000, 96, Op.FLOOR, Op.PUSHB000, 96, Op.CEILING>>,
     <<Op.ROFF, Op.PUSHB000, 90, Op.ROUND00, Op.RTG, Op.PUSHB000, 90, Op.ROUND00, Op.RTHG,
       Op.PUSHB000, 90, Op.ROUND00, Op.RDTG, Op.PUSHB000, 90, Op.ROUND00, Op.RUTG, Op.PUSHB000,
       90, Op.ROUND00, Op.RTDG, Op.PUSHB000, 90, Op.ROUND00>>,
     <<Op.PUSHB000, 88, Op.SROUND, Op.PUSHW000, 255, 175, Op.ROUND00, Op.PUSHW000, 255, 176,
       Op.ROUND00, Op.PUSHW000, 255, 239, Op.ROUND00, Op.PUSHW000, 255, 240, Op.ROUND00,
       Op.PUSHB000, 0, Op.ROUND00, Op.PUSHB000, 16, Op.ROUND00, Op.PUSHB000, 47, Op.ROUND00,
       Op.PUSHB000, 48, Op.ROUND00>>,
     <<Op.PUSHB010, 1, 2, 3, Op.ROLL>>,
     <<Op.PUSHW001, 255, 254, 255, 253, Op.MAX, Op.PUSHW001, 255, 252, 255, 251, Op.MIN>>}

\* Further programs with the instructions of TestBytecode, with other operands and in
\* another order, and with GETINFO, MPPEM and DEPTH, which no test executes.
VariantPrograms ==
    {<<Op.PUSHB000, 10, Op.PUSHB000, 2, Op.JMPR, Op.DUP, Op.DUP, Op.PUSHB010, 20, 2, 1, Op.JROT,
       Op.DUP, Op.DUP, Op.PUSHB010, 30, 2, 1, Op.JROF, Op.DUP, Op.DUP>>,
     <<Op.PUSHB010, 10, 20, 30, Op.CLEAR, Op.PUSHB010, 40, 50, 60, Op.SWAP, Op.DUP, Op.POP,
       Op.PUSHB001, 3, 2, Op.CINDEX, Op.PUSHB000, 4, Op.MINDEX>>,
     <<Op.PUSHB000, 255, Op.PUSHW000, 255, 254, Op.PUSHB001, 253, 1, Op.NPUSHB, 1, 2, Op.NPUSHW,
       3, 4, 5, 6, 7, 8, 9>>,
     <<Op.PUSHB001, 1, 22, Op.WS, Op.PUSHB000, 1, Op.RS, Op.DUP, Op.ADD>>,
     <<Op.PUSHB001, 10, 20, Op.LT, Op.PUSHB001, 10, 20, Op.GTEQ, Op.PUSHB001, 10, 10, Op.EQ,
       Op.NEQ, Op.PUSHB001, 3, 4, Op.LTEQ, Op.GT>>,
     <<Op.PUSHB000, 96, Op.ODD, Op.PUSHB000, 95, Op.EVEN, Op.PUSHW000, 255, 160, Op.NOT>>,
     <<Op.PUSHB000, 0, Op.IF_, Op.PUSHB000, 1, Op.IF_, Op.PUSHB000, Op.ELSE_, Op.EIF, Op.ELSE_,
       Op.NPUSHB, 2, Op.IF_, Op.EIF, Op.EIF, Op.PUSHB000, 254>>,
     <<Op.PUSHB001, 0, 1, Op.AND, Op.PUSHB000, 2, Op.OR, Op.NOT>>,
     <<Op.PUSHB000, 195, Op.PUSHB001, 64, 128, Op.MUL, Op.PUSHB000, 3, Op.DIV, Op.SUB, Op.NEG,
       Op.ABS, Op.PUSHB000, 7, Op.MAX, Op.PUSHB001, 9, 4, Op.MIN>>,
     <<Op.PUSHB000, 96, Op.FLOOR, Op.PUSHB000, 96, Op.CEILING, Op.PUSHB000, 33, Op.GETINFO,
       Op.PUSHB010, 1, 2, 3, Op.ROLL, Op.MPPEM, Op.DEPTH>>,
     <<Op.PUSHB000, 88, Op.SROUND, Op.PUSHW000, 255, 175, Op.ROUND00, Op.PUSHB000, 47, Op.ROUND00,
       Op.RTDG, Op.PUSHB000, 20, Op.ROUND00, Op.RUTG, Op.PUSHB000, 20, Op.ROUND00 + 1, Op.ROFF,
       Op.RDTG, Op.RTG, Op.PUSHB000, 137, Op.S45ROUND, Op.PUSHB000, 20, Op.NROUND00, Op.ROUND11>>}

\* Programs at the limits of the stack: too few operands for an instruction,
\* an index that addresses no element, and pushes onto a full stack.
StackPrograms ==
    {<<Op.PUSHB000, 1, Op.SWAP>>,
     <<Op.PUSHB001, 1, 2, Op.ROLL>>,
     <<Op.PUSHB000, 1, Op.MIRP00000>>,
     <<Op.PUSHB000, 4, Op.LOOPCALL>>,
     <<Op.NROUND00>>,
     <<Op.PUSHB001, 5, 2, Op.CINDEX>>,
     <<Op.PUSHB001, 5, 0, Op.MINDEX>>,
     <<Op.PUSHB001, 5, 1, Op.MINDEX>>,
     <<Op.PUSHB000, 2, Op.SLOOP, Op.PUSHB000, 0, Op.IP>>,
     <<Op.PUSHB000, 3, Op.SLOOP, Op.PUSHB001, 0, 1, Op.ALIGNRP>>,
     <<Op.PUSHW000, 255, 255, Op.SLOOP>>,
     Fill(255) \o <<Op.DUP, Op.DUP>>,
     Fill(255) \o <<Op.DEPTH, Op.MPPEM>>,
     Fill(255) \o <<Op.GPV>>,
     Fill(254) \o <<Op.GFV, Op.MPS>>,
     Fill(255) \o <<Op.PUSHB001, 1, 2>>,
     Fill(255) \o <<Op.NPUSHW, 2, 0, 1, 0, 2>>,
     Fill(200) \o Fill(56) \o <<Op.PUSHW000, 1, 1>>,
     <<Op.DEPTH>>,
     <<Op.PUSHB111, 1, 2, 3>>,
     <<Op.NPUSHB>>,
     <<Op.IDEF>>,
     <<Op.PUSHB000, 1, Op.IDEF>>,
     <<Op.MIN + 2>>,
     <<Op.PUSHB001, 9, 0, Op.DIV>>,
     <<Op.PUSHB001, 40, 9, Op.WS>>,
     <<Op.PUSHW000, 255, 255, Op.RS>>,
     <<Op.PUSHW000, 255, 250, Op.JMPR>>}

\* Programs with functions: a definition and calls, a call of a function
\* defined by the fpgm, a function that calls itself, a counted loop, and
\* malformed definitions.
CallPrograms ==
    {<<Op.PUSHB000, 1, Op.FDEF, Op.PUSHB000, 5, Op.IF_, Op.ENDF, Op.PUSHB000, 1, Op.CALL,
       Op.PUSHB001, 3, 1, Op.LOOPCALL, Op.PUSHB001, 0, 1, Op.LOOPCALL>>,
     <<Op.PUSHB000, 0, Op.CALL, Op.RS>>,
     <<Op.PUSHB000, 1, Op.FDEF, Op.PUSHB000, 1, Op.CALL, Op.ENDF, Op.PUSHB000, 1,
       Op.CALL>>,
     <<Op.ENDF>>,
     <<Op.PUSHB000, 1, Op.FDEF, Op.NPUSHB>>,
     <<Op.PUSHB000, 1, Op.FDEF, Op.PUSHB000, 2, Op.FDEF, Op.ENDF>>,
     <<Op.PUSHB000, 1, Op.FDEF, Op.PUSHB000>>}

\* A glyph zone of four on-curve points of one contour: a square of 32 font
\* units, scaled by s/64, with the four phantom points after it.
SquareUnits ==
    <<[X |-> 0, Y |-> 0, Flags |-> flagOnCurve], [X |-> 32, Y |-> 0, Flags |-> flagOnCurve],
      [X |-> 32, Y |-> 35, Flags |-> flagOnCurve], [X |-> 3, Y |-> 32, Flags |-> flagOnCurve],
      ZeroPoint, [X |-> 40, Y |-> 0, Flags |-> 0], ZeroPoint, ZeroPoint>>

ScaledPoints(f, scale, ps) ==
    [k \in 1 .. Len(ps) |-> [ps[k] EXCEPT !.X = FontScale(f, scale * @),
                                           !.Y = FontScale(f, scale * @)]]

NoZone == [current |-> <<>>, unhinted |-> <<>>, inFontUnits |-> <<>>, ends |-> <<>>]

SquareZone(h) ==
    [current |-> ScaledPoints(h.font, h.scale, SquareUnits),
     unhinted |-> ScaledPoints(h.font, h.scale, SquareUnits),
     inFontUnits |-> SquareUnits, ends |-> <<4>>]

\* Programs that move the points of the glyph zone, or refer to points or
\* zones that do not exist.
PointPrograms ==
    {<<Op.PUSHB000, 1, Op.MDAP1, Op.PUSHB000, 2, Op.MDRP00000 + 20, Op.IUP1, Op.SVTCA0,
       Op.PUSHB000, 3, Op.MDAP1, Op.IUP0>>,
     <<Op.PUSHB000, 0, Op.MDAP0, Op.PUSHB001, 1, 2, Op.PUSHB000, 2, Op.SLOOP, Op.ALIGNRP>>,
     <<Op.PUSHB000, 0, Op.SRP1, Op.PUSHB000, 2, Op.SRP2, Op.PUSHB000, 1, Op.IP>>,
     <<Op.PUSHB001, 1, 0, Op.MIAP1, Op.PUSHB001, 2, 1, Op.MIRP00000 + 12,
       Op.PUSHB001, 3, 2, Op.MIAP0>>,
     <<Op.PUSHB000, 0, Op.SZP0, Op.PUSHB001, 1, 0, Op.MIAP1, Op.PUSHB000, 2,
       Op.MDRP00000 + 16, Op.PUSHB001, 16, 64, Op.SPVFS, Op.PUSHB001, 64, 16, Op.SFVFS,
       Op.PUSHB000, 3, Op.MDAP1>>,
     <<Op.PUSHB000, 9, Op.SRP1, Op.PUSHB000, 0, Op.IP>>,
     <<Op.PUSHB000, 5, Op.SZPS, Op.PUSHB000, 0, Op.MDAP0>>,
     <<Op.PUSHB000, 8, Op.MDAP0>>,
     <<Op.PUSHB000, 0, Op.SZP1, Op.PUSHB001, 1, 0, Op.MIRP00000>>,
     <<Op.PUSHB001, 0, 2, Op.MIAP0>>,
     <<Op.PUSHB000, 0, Op.MDAP0, Op.PUSHB001, 1, 0, Op.MIRP00000, Op.PUSHB001, 2, 1,
       Op.MIRP00000 + 4>>,
     <<Op.PUSHB000, 40, Op.SSW, Op.PUSHB000, 64, Op.SSWCI, Op.PUSHB000, 1,
       Op.MDRP00000 + 12, Op.FLIPOFF, Op.FLIPON, Op.PUSHB000, 9, Op.SDB, Op.PUSHB000, 3,
       Op.SDS, Op.PUSHB000, 70, Op.SCVTCI, Op.PUSHB000, 32, Op.SMD, Op.SPVTCA0,
       Op.SFVTCA1, Op.SPVTCA1, Op.SFVTCA0, Op.PUSHB000, 1, Op.MDAP1>>}

\* Programs with IF, ELSE and EIF: an EIF, an ELSE and an IF that have no
\* partner, a false IF whose ELSE has no EIF, an ELSE that is reached after a
\* true IF and skips a nested IF and a push whose bytes are EIF and ELSE, and a
\* false IF that skips a nested IF with its ELSE.
NestingPrograms ==
    {<<Op.EIF, Op.PUSHB000, 1>>,
     <<Op.PUSHB000, 1, Op.IF_, Op.PUSHB000, 5>>,
     <<Op.ELSE_, Op.PUSHB000, 1, Op.EIF, Op.PUSHB000, 2>>,
     <<Op.ELSE_, Op.PUSHB000, 1>>,
     <<Op.PUSHB000, 0, Op.IF_, Op.PUSHB000, 1, Op.ELSE_, Op.PUSHB000, 2>>,
     <<Op.PUSHB000, 1, Op.IF_, Op.PUSHB000, 7, Op.ELSE_, Op.PUSHB000, 0, Op.IF_,
       Op.PUSHB000, 8, Op.EIF, Op.PUSHW000, Op.EIF, Op.ELSE_, Op.PUSHB000, 9, Op.EIF,
       Op.PUSHB000, 10>>,
     <<Op.PUSHB000, 0, Op.IF_, Op.PUSHB000, 1, Op.IF_, Op.PUSHB000, 2, Op.ELSE_,
       Op.PUSHB000, 3, Op.EIF, Op.ELSE_, Op.PUSHB000, 4, Op.EIF, Op.PUSHB000, 5>>}

\* A program that defines function 1, which pushes 9, calls it n times with
\* LOOPCALL and pushes 4.
LoopcallProgram(n) ==
    <<Op.PUSHB000, 1, Op.FDEF, Op.PUSHB000, 9, Op.ENDF, Op.PUSHB001, n, 1, Op.LOOPCALL,
      Op.PUSHB000, 4>>

\* Programs with counted loops, and a function that calls itself by LOOPCALL.
LoopPrograms ==
    {LoopcallProgram(n) : n \in 0 .. 3}
        \cup {<<Op.PUSHB000, 1, Op.FDEF, Op.PUSHB001, 1, 1, Op.LOOPCALL, Op.ENDF,
                Op.PUSHB000, 1, Op.CALL>>}

\* What run is called with: a program and the glyph zone or no points.
RunInputs ==
    [program : TestPrograms \cup VariantPrograms \cup StackPrograms \cup CallPrograms
                   \cup NestingPrograms \cup LoopPrograms,
     square : {FALSE}]
        \cup [program : PointPrograms, square : {TRUE}]

\* h.init(f, scale) on a Hinter that is not in run.
HinterInit(f, scale) ==
    /\ hint.status \in {"ready", "returned"}
    /\ hint' = init(hint, f, scale)
    /\ UNCHANGED <<face, glyphOut, ttf, parsed, query, gbuf, hinter, paint, raster, ctx>>

\* h.run(program, ...) is called on a Hinter whose last init returned nil, as
\* GlyphBuf.Load does, and reaches its loop, or returns for a program that is
\* too long.
RunCall(in) ==
    /\ hint.status = "ready"
    /\ hint.font # NilFont
    /\ hint.err = ""
    /\ hint.runs < MaxRuns
    /\ LET z == IF in.square THEN SquareZone(hint) ELSE NoZone
       IN hint' = [RunBegin(hint, in.program, z.current, z.unhinted, z.inFontUnits, z.ends)
                       EXCEPT !.runs = @ + 1]
    /\ UNCHANGED <<face, glyphOut, ttf, parsed, query, gbuf, hinter, paint, raster, ctx>>

\* One iteration of the loop of run, or its return at the end of the program.
RunStep ==
    /\ hint.status = "running"
    /\ hint' = Step(hint)
    /\ UNCHANGED <<face, glyphOut, ttf, parsed, query, gbuf, hinter, paint, raster, ctx>>

InitRun == FaceIdle /\ FontIdle /\ LoadIdle /\ RasterIdle /\ hint = NewHinter

NextRun ==
    \/ \E f \in HintFonts, scale \in HintScales : HinterInit(f, scale)
    \/ \E in \in RunInputs : RunCall(in)
    \/ RunStep

SpecRun == InitRun /\ [][NextRun]_vars

(***************************************************************************)
(* SpecRunBudget: run on programs that loop, that recurse, and on a        *)
(* program of more than 50000 bytes.  FairRunBudget lets run take its next *)
(* step whenever it is in its loop.                                        *)
(***************************************************************************)
BudgetFont == HintFont(1, 100, 32, <<>>, <<>>, <<>>)

\* A backward JMPR loop; LOOPCALL with the count -1 and with the count 131068
\* of a function that is only its ENDF; a function that calls itself; a
\* program of 50001 bytes; a program that ends.
BudgetPrograms ==
    {<<Op.PUSHW000, 255, 255, Op.DUP, Op.JMPR>>,
     <<Op.PUSHB000, 0, Op.FDEF, Op.ENDF, Op.PUSHW000, 255, 255, Op.PUSHB000, 0,
       Op.LOOPCALL>>,
     <<Op.PUSHB000, 0, Op.FDEF, Op.ENDF, Op.PUSHW000, 127, 255, Op.DUP, Op.ADD, Op.DUP,
       Op.ADD, Op.PUSHB000, 0, Op.LOOPCALL>>,
     <<Op.PUSHB000, 1, Op.FDEF, Op.PUSHB000, 1, Op.CALL, Op.ENDF, Op.PUSHB000, 1,
       Op.CALL>>,
     Bytes(maxProgramLen + 1, Op.SVTCA0),
     <<Op.PUSHB000, 7, Op.PUSHB000, 3, Op.LOOPCALL>>}

RunCallBudget(program) ==
    /\ hint.status = "ready"
    /\ hint.runs < MaxRuns
    /\ hint' = [RunBegin(hint, program, <<>>, <<>>, <<>>, <<>>) EXCEPT !.runs = @ + 1]
    /\ UNCHANGED <<face, glyphOut, ttf, parsed, query, gbuf, hinter, paint, raster, ctx>>

InitRunBudget ==
    FaceIdle /\ FontIdle /\ LoadIdle /\ RasterIdle /\ hint = init(NewHinter, BudgetFont, 768)

NextRunBudget ==
    \/ \E program \in BudgetPrograms : RunCallBudget(program)
    \/ RunStep

SpecRunBudget == InitRunBudget /\ [][NextRunBudget]_vars

FairRunBudget == SpecRunBudget /\ WF_vars(RunStep)

(***************************************************************************)
(* SpecInit: one Hinter is initialised again and again, for fonts whose    *)
(* fpgm and prep programs leave a mark in the storage area each time they  *)
(* are executed.                                                           *)
(***************************************************************************)
\* A program that replaces store[k] by 1 - store[k].
Flip(k) == <<Op.PUSHB000, k, Op.PUSHB000, 1, Op.PUSHB000, k, Op.RS, Op.SUB, Op.WS>>

\* A program that defines the function fn.
Define(fn) == <<Op.PUSHB000, fn, Op.FDEF, Op.PUSHB000, 7, Op.ENDF>>

\* Fonts with the same storage size: two whose fpgm flips store[0] and defines
\* a function and whose prep flips store[1] and selects a rounding state; one
\* whose prep defines a function; one without programs; one whose fpgm fails
\* and one whose prep fails.
InitFonts ==
    {HintFont(1, 16, 4, Flip(0) \o Define(1), Flip(1) \o <<Op.RTHG>>, <<>>),
     HintFont(2, 16, 4, Flip(0) \o Define(2), Flip(1) \o <<Op.RDTG>>, <<>>),
     HintFont(3, 16, 4, Flip(0), Flip(1) \o Define(3), <<>>),
     HintFont(4, 16, 4, <<>>, <<>>, <<>>),
     HintFont(5, 16, 4, <<Op.POP>>, Flip(1), <<>>),
     HintFont(6, 16, 4, Flip(0), Flip(1) \o <<Op.RUTG, Op.POP>>, <<>>)}

InitScales == {640, 768, 896}

InitInit == FaceIdle /\ FontIdle /\ LoadIdle /\ RasterIdle /\ hint = NewHinter

NextInit == \E f \in InitFonts, scale \in InitScales : HinterInit(f, scale)

SpecInit == InitInit /\ [][NextInit]_vars

(***************************************************************************)
(* SpecRound: a freshly initialised Hinter runs one program that selects a *)
(* rounding state, pushes a 26.6 value and rounds it.                      *)
(***************************************************************************)
\* A program that leaves the int32 value v on the stack: PUSHW for an int16
\* value, otherwise the half of v doubled by DUP and ADD.
RECURSIVE PushValue(_)
PushValue(v) ==
    IF v \in -32768 .. 32767 THEN <<Op.PUSHW000, U16Of(v) \div 256, U16Of(v) % 256>>
    ELSE IF v < 0 THEN PushValue(-v) \o <<Op.NEG>>
    ELSE PushValue(v \div 2) \o <<Op.DUP, Op.ADD>>
             \o (IF v % 2 = 1 THEN <<Op.PUSHB000, 1, Op.ADD>> ELSE <<>>)

\* The instructions that select one of the six named rounding states.
RoundStates == {Op.ROFF, Op.RTG, Op.RTHG, Op.RTDG, Op.RDTG, Op.RUTG}

\* The magnitudes that are rounded: every residue of 64 and some more values
\* around the grid lines, and the largest values of an int32.
RoundMagnitudes ==
    (0 .. 66) \cup {90, 95, 96, 97, 127, 128, 129, 4000, 32767, 32768, 70000}
        \cup {MaxInt32 - k : k \in {0, 15, 16, 31, 32, 33, 63, 64, 65}}

RoundInputs ==
    [state : RoundStates, v : RoundMagnitudes \cup {-m : m \in RoundMagnitudes},
     flavour : 0 .. 3]

RoundProgram(in) == <<in.state>> \o PushValue(in.v) \o <<Op.ROUND00 + in.flavour>>

RoundHinter == init(NewHinter, HintFont(1, 16, 0, <<>>, <<>>, <<>>), 768)

\* h.run(program, ...) on the Hinter as init left it.
RoundCall(in) ==
    /\ hint = RoundHinter
    /\ hint' = RunBegin(hint, RoundProgram(in), <<>>, <<>>, <<>>, <<>>)
    /\ UNCHANGED <<face, glyphOut, ttf, parsed, query, gbuf, hinter, paint, raster, ctx>>

InitRound == FaceIdle /\ FontIdle /\ LoadIdle /\ RasterIdle /\ hint = RoundHinter

NextRound ==
    \/ \E in \in RoundInputs : RoundCall(in)
    \/ RunStep

SpecRound == InitRound /\ [][NextRound]_vars

(***************************************************************************)
(* SpecIup: run executes IUP[0] or IUP[1] on a glyph zone of five points,  *)
(* for every layout of contours and every pattern of touched flags.        *)
(***************************************************************************)
\* The points of the glyph zone in font units.  Two of them have the same X
\* and two the same Y.
IupUnits ==
    <<[X |-> 0, Y |-> 0, Flags |-> flagOnCurve], [X |-> 32, Y |-> 0, Flags |-> flagOnCurve],
      [X |-> 16, Y |-> 32, Flags |-> flagOnCurve], [X |-> 32, Y |-> 8, Flags |-> flagOnCurve],
      [X |-> 8, Y |-> 16, Flags |-> flagOnCurve]>>

\* How far a touched point was moved along the axis; one was not moved.
IupMoved == <<64, -32, 0, 128, 17>>

\* The contour ends: one contour, several, an empty one, layouts that leave
\* the last point outside every contour, and layouts with an end beyond the
\* points, as the ends of a glyph that are not increasing give them.
IupLayouts ==
    {<<5>>, <<4>>, <<2, 5>>, <<1, 4>>, <<3, 5>>, <<1, 2, 5>>, <<2, 2, 4>>, <<6>>, <<2, 9>>}

\* The touched flags: every set of points touched along the axis of the
\* instruction, and three sets of points touched along the other axis.
IupInputs ==
    {[opcode |-> opcode, ends |-> ends, along |-> along, across |-> across] :
        opcode \in {Op.IUP0, Op.IUP1}, ends \in IupLayouts,
        along \in SUBSET (0 .. 4), across \in {{}, {1, 3}, 0 .. 4}}

\* The points as the instructions before IUP left them: a point touched along
\* an axis has the flag of that axis and was moved along it.
IupCurrent(h, in) ==
    LET unh == ScaledPoints(h.font, h.scale, IupUnits)
        tx == IF in.opcode = Op.IUP1 THEN in.along ELSE in.across
        ty == IF in.opcode = Op.IUP1 THEN in.across ELSE in.along
    IN [k \in 1 .. Len(unh) |->
           [X |-> unh[k].X + (IF k - 1 \in tx THEN IupMoved[k] ELSE 0),
            Y |-> unh[k].Y + (IF k - 1 \in ty THEN IupMoved[k] ELSE 0),
            Flags |-> unh[k].Flags + (IF k - 1 \in tx THEN flagTouchedX ELSE 0)
                          + (IF k - 1 \in ty THEN flagTouchedY ELSE 0)]]

IupHinter == init(NewHinter, HintFont(1, 16, 0, <<>>, <<>>, <<>>), 640)

\* h.run({IUP}, ...) on the Hinter as init left it.
IupCall(in) ==
    /\ hint = IupHinter
    /\ hint' = RunBegin(hint, <<in.opcode>>, IupCurrent(hint, in),
                        ScaledPoints(hint.font, hint.scale, IupUnits), IupUnits, in.ends)
    /\ UNCHANGED <<face, glyphOut, ttf, parsed, query, gbuf, hinter, paint, raster, ctx>>

InitIup == FaceIdle /\ FontIdle /\ LoadIdle /\ RasterIdle /\ hint = IupHinter

NextIup ==
    \/ \E in \in IupInputs : IupCall(in)
    \/ RunStep

SpecIup == InitIup /\ [][NextIup]_vars

(***************************************************************************)
(* SpecLoad: one GlyphBuf and one Hinter; Load is called again and again,  *)
(* with and without the Hinter, for the glyphs of two fonts, and takes one *)
(* step at a time.                                                         *)
(***************************************************************************)
\* The bounding box of the glyphs: XMin, YMin, XMax, YMax.
GlyphBox == Be16(2) \o Be16(0) \o Be16(40) \o Be16(40)

\* A simple glyph: the contour ends, the program, the flags and the deltas.
SimpleGlyph(ends, program, flags, xs, ys) ==
    Be16(Len(ends)) \o GlyphBox \o Flatten([k \in 1 .. Len(ends) |-> Be16(ends[k])])
        \o Be16(Len(program)) \o program \o flags \o xs \o ys

\* A component of a compound glyph.
GlyphComponent(flags, i, args, transform) == Be16(flags) \o Be16(i) \o args \o transform

\* A compound glyph: its components and the bytes after them.
CompoundGlyph(components, rest) == Be16(-1) \o GlyphBox \o Flatten(components) \o rest

\* The three points (0, 0), (32, 0), (16, 32) of one contour.
Triangle(program) == SimpleGlyph(<<2>>, program, <<49, 51, 39>>, <<32, 16>>, <<32>>)

\* The three points (2, 0), (34, 0), (18, 32) of one contour, all inside GlyphBox, and a
\* byte that pads the glyph to an even length.
BoxedTriangle == SimpleGlyph(<<2>>, <<>>, <<51, 51, 39>>, <<2, 32, 16>>, <<32>>) \o <<0>>

\* The glyphs of the second font.
LoadGlyphsB ==
    <<Triangle(<<>>), CompoundGlyph(<<GlyphComponent(6, 0, <<9, 9>>, <<>>)>>, <<>>),
      BoxedTriangle>>

\* The 'loca' offsets of the glyphs, in the long and in the short format.
RECURSIVE GlyphOffsets(_, _)
GlyphOffsets(glyphs, from) ==
    IF glyphs = <<>> THEN <<from>>
    ELSE <<from>> \o GlyphOffsets(Tail(glyphs), from + Len(Head(glyphs)))

LocaTable(glyphs, format) ==
    LET offs == GlyphOffsets(glyphs, 0)
    IN Flatten([k \in 1 .. Len(offs) |->
                   IF format = locaOffsetFormatShort THEN Be16(offs[k] \div 2)
                   ELSE Be32(offs[k])])

\* The glyphs of the first font, from glyph 0 on: an empty glyph; a triangle;
\* two contours with repeated flags, word deltas and a program; a compound of
\* both with byte and word offsets, a scale and rounding; a compound of
\* itself; two compounds of each other; a simple glyph without contours
\* that has point data, and a compound of the triangle and of it; a glyph
\* with -2 contours; a compound whose arguments are point numbers; a
\* triangle whose program fails, and a compound of it; a compound with
\* an x and y scale, a two by two transform and a program; a glyph that
\* ends after its header; a compound whose program fails; a triangle whose
\* program rounds its last point if store[0] is not 0 and writes 1 to store[0].
LoadGlyphs ==
    <<<<>>,
      Triangle(<<>>),
      SimpleGlyph(<<2, 5>>, <<Op.PUSHB000, 1, Op.MDAP1, Op.IUP1, Op.IUP0>>,
                  <<49, 9, 1, 57, 2>>, Be16(40) \o Be16(-20), Be16(10) \o Be16(30)),
      CompoundGlyph(<<GlyphComponent(546, 1, <<5, 251>>, <<>>),
                      GlyphComponent(15, 2, Be16(33) \o Be16(-7), Be16(8192))>>, <<>>),
      CompoundGlyph(<<GlyphComponent(2, 4, <<0, 0>>, <<>>)>>, <<>>),
      CompoundGlyph(<<GlyphComponent(2, 6, <<0, 0>>, <<>>)>>, <<>>),
      CompoundGlyph(<<GlyphComponent(34, 1, <<0, 0>>, <<>>),
                      GlyphComponent(2, 5, <<1, 1>>, <<>>)>>, <<>>),
      SimpleGlyph(<<>>, <<>>, <<57, 2>>, <<>>, <<>>),
      CompoundGlyph(<<GlyphComponent(34, 1, <<0, 0>>, <<>>),
                      GlyphComponent(2, 7, <<8, 8>>, <<>>)>>, <<>>),
      Be16(-2) \o GlyphBox \o <<0, 0>>,
      CompoundGlyph(<<GlyphComponent(0, 1, <<0, 0>>, <<>>)>>, <<>>),
      Triangle(<<Op.POP>>),
      CompoundGlyph(<<GlyphComponent(34, 11, <<0, 0>>, <<>>),
                      GlyphComponent(2, 1, <<4, 4>>, <<>>)>>, <<>>),
      CompoundGlyph(<<GlyphComponent(98, 1, <<0, 0>>, Be16(8192) \o Be16(16384)),
                      GlyphComponent(130, 2, <<3, 253>>,
                                     Be16(0) \o Be16(16384) \o Be16(-16384) \o Be16(0))>>,
                    Be16(3) \o <<Op.PUSHB000, 2, Op.MDAP1>>),
      Be16(1) \o GlyphBox,
      CompoundGlyph(<<GlyphComponent(2, 1, <<0, 0>>, <<>>)>>, Be16(1) \o <<Op.POP>>),
      Triangle(<<Op.PUSHB000, 0, Op.RS, Op.IF_, Op.PUSHB000, 2, Op.MDAP1, Op.EIF,
                 Op.PUSHB001, 0, 1, Op.WS>>)>>

\* The first font: 64 units per em, the long 'loca' format, two long
\* horizontal metrics, no 'vmtx' table; its fpgm defines function 0 and its
\* prep calls it.
LoadFontA ==
    [NilFont EXCEPT
        !.id = 1, !.unitsPerEm = 64, !.maxStackElements = 8, !.maxStorage = 2,
        !.maxTwilightPoints = 2,
        !.fpgm = <<Op.PUSHB000, 0, Op.FDEF, Op.RTHG, Op.ENDF>>,
        !.prep = <<Op.PUSHB000, 0, Op.CALL>>,
        !.locaOffsetFormat = locaOffsetFormatLong,
        !.loca = LocaTable(LoadGlyphs, locaOffsetFormatLong),
        !.glyf = Flatten(LoadGlyphs),
        !.hmtx = Be16(70) \o Be16(3) \o Be16(64) \o Be16(-2)
                     \o Flatten([k \in 1 .. (Len(LoadGlyphs) - 2) |-> Be16(k % 3)]),
        !.nGlyph = Len(LoadGlyphs), !.nHMetric = 2]

\* The second font: 128 units per em, the short 'loca' format, a 'vmtx'
\* table, a triangle, a compound of it and a triangle inside its bounding box
\* whose left side bearing is 0, and a prep that fails.
LoadFontB ==
    [NilFont EXCEPT
        !.id = 2, !.unitsPerEm = 128, !.maxStackElements = 4,
        !.prep = <<Op.POP>>,
        !.locaOffsetFormat = locaOffsetFormatShort,
        !.loca = LocaTable(LoadGlyphsB, locaOffsetFormatShort),
        !.glyf = Flatten(LoadGlyphsB),
        !.hmtx = Be16(100) \o Be16(4) \o Be16(90) \o Be16(0) \o Be16(0),
        !.vmtx = Be16(120) \o Be16(6) \o Be16(110) \o Be16(1) \o Be16(0),
        !.nGlyph = Len(LoadGlyphsB), !.nHMetric = 2]

\* The calls of Load: every glyph of a font and the index after the last, at
\* two scales, with and without the Hinter.
LoadInputs ==
    {[f |-> LoadFontA, scale |-> scale, i |-> i, hinted |-> hinted] :
        scale \in {64, 96}, i \in 0 .. Len(LoadGlyphs), hinted \in BOOLEAN}
        \cup {[f |-> LoadFontB, scale |-> 128, i |-> i, hinted |-> hinted] :
                 i \in 0 .. Len(LoadGlyphsB), hinted \in BOOLEAN}

\* g.Load(f, scale, i, h) is called, with h nil unless hinted.
LoadCall(in) ==
    /\ gbuf.status # "loading"
    /\ \E m \in {LoadBegin(gbuf, hinter, in.f, in.scale, in.i, in.hinted)} :
           gbuf' = m.g /\ hinter' = m.h
    /\ UNCHANGED <<face, glyphOut, ttf, parsed, query, hint, paint, raster, ctx>>

\* Load takes its next step.
LoadStep ==
    /\ gbuf.status = "loading"
    /\ \E m \in {loadStep([g |-> gbuf, h |-> hinter])} : gbuf' = m.g /\ hinter' = m.h
    /\ UNCHANGED <<face, glyphOut, ttf, parsed, query, hint, paint, raster, ctx>>

InitLoad ==
    FaceIdle /\ FontIdle /\ RunIdle /\ RasterIdle /\ gbuf = NewGlyphBuf /\ hinter = NewHinter

NextLoad ==
    \/ \E in \in LoadInputs : LoadCall(in)
    \/ LoadStep

SpecLoad == InitLoad /\ [][NextLoad]_vars

(***************************************************************************)
(* SpecLoadCounted: at most MaxLoads calls of Load on a new GlyphBuf.      *)
(* FairLoad lets a Load that was called take its next step.  The calls     *)
(* with the Hinter are those whose glyph programs, if any, fail at their    *)
(* first instruction or end in a run-time panic at their second: how long   *)
(* a program runs is the matter of FairRunBudget.                           *)
(***************************************************************************)
MaxLoads == 2

\* The glyphs of the third and fourth font: a triangle whose program
\* dereferences a nil point, a compound of a triangle with such a program,
\* and a triangle without a program.
LoadGlyphsC ==
    <<Triangle(<<Op.PUSHB000, 100, Op.IP>>),
      CompoundGlyph(<<GlyphComponent(2, 2, <<0, 0>>, <<>>)>>,
                    Be16(3) \o <<Op.PUSHB000, 100, Op.IP>>),
      Triangle(<<>>)>>

\* The third font: glyph programs that end in a run-time panic.
LoadFontC ==
    [NilFont EXCEPT
        !.id = 3, !.unitsPerEm = 64, !.maxStackElements = 4,
        !.locaOffsetFormat = locaOffsetFormatLong,
        !.loca = LocaTable(LoadGlyphsC, locaOffsetFormatLong),
        !.glyf = Flatten(LoadGlyphsC),
        !.hmtx = Be16(70) \o Be16(3) \o Be16(64) \o Be16(-2) \o Be16(0),
        !.nGlyph = Len(LoadGlyphsC), !.nHMetric = 2]

\* The fourth font: the third with a prep that ends in a run-time panic.
LoadFontD == [LoadFontC EXCEPT !.id = 4, !.prep = <<Op.PUSHB000, 100, Op.IP>>]

\* The calls of Load with the Hinter in which init, the run of the program
\* of a simple glyph and the run of the program of a compound glyph panic.
PanicInputs ==
    {[f |-> LoadFontC, scale |-> 64, i |-> i, hinted |-> TRUE] : i \in {0, 1}}
        \cup {[f |-> LoadFontD, scale |-> 64, i |-> 2, hinted |-> TRUE]}

CountedInputs ==
    {in \in LoadInputs : in.hinted /\ in.f.id = LoadFontA.id => in.i \notin {2, 3, 13, 16}}
        \cup PanicInputs

LoadCallCounted(in) ==
    /\ gbuf.status # "loading"
    /\ gbuf.loads < MaxLoads
    /\ \E m \in {LoadBegin(gbuf, hinter, in.f, in.scale, in.i, in.hinted)} :
           gbuf' = [m.g EXCEPT !.loads = @ + 1] /\ hinter' = m.h
    /\ UNCHANGED <<face, glyphOut, ttf, parsed, query, hint, paint, raster, ctx>>

NextLoadCounted ==
    \/ \E in \in CountedInputs : LoadCallCounted(in)
    \/ LoadStep

SpecLoadCounted == InitLoad /\ [][NextLoadCounted]_vars

FairLoad == SpecLoadCounted /\ WF_vars(LoadStep)

(***************************************************************************)
(* raster: the painters that wrap another Painter.  A Span is a record     *)
(* with the fields Y, X0, X1 and A; the uint32 alpha A is the pair of its  *)
(* high and low 16 bits.  The wrapped Painter is one that records the      *)
(* calls it receives.                                                      *)
(***************************************************************************)
Opaque == <<65535, 65535>>

Span(y, x0, x1, a) == [Y |-> y, X0 |-> x0, X1 |-> x1, A |-> a]

\* NewMonochromePainter: the accumulated span of a new MonochromePainter.
NewMonochromePainter == [y |-> 0, x0 |-> 0, x1 |-> 0]

\* The loop of MonochromePainter.Paint over ss[k ..]: the spans written to
\* ss[0 .. j-1] as far as they are in out, and the accumulator m.
RECURSIVE monoCompact(_, _, _, _)
monoCompact(ss, k, m, out) ==
    IF k > Len(ss) THEN [m |-> m, ss |-> out]
    ELSE IF ss[k].A[1] < 32768 THEN monoCompact(ss, k + 1, m, out)
    ELSE IF m.y = ss[k].Y /\ m.x1 = ss[k].X0
    THEN monoCompact(ss, k + 1, [m EXCEPT !.x1 = ss[k].X1], out)
    ELSE monoCompact(ss, k + 1, [y |-> ss[k].Y, x0 |-> ss[k].X0, x1 |-> ss[k].X1],
                     Append(out, Span(m.y, m.x0, m.x1, Opaque)))

\* The mutant's Paint leaves the accumulator as it is after the batch with
\* done.
MonochromePaintNoReset(m, ss, done) ==
    LET c == monoCompact(ss, 1, m, <<>>)
        finalSpan == Span(c.m.y, c.m.x0, c.m.x1, Opaque)
    IN IF ~done THEN [m |-> c.m, calls |-> <<[ss |-> c.ss, done |-> FALSE]>>]
       ELSE IF Len(c.ss) < Len(ss)
       THEN [m |-> c.m,
             calls |-> <<[ss |-> Append(c.ss, finalSpan), done |-> TRUE]>>]
       ELSE [m |-> c.m,
             calls |-> <<[ss |-> c.ss, done |-> FALSE],
                         [ss |-> <<finalSpan>>, done |-> TRUE]>>]

\* MonochromePainter.Paint(ss, done) of a painter with the accumulator m: the
\* accumulator after it and the calls of the wrapped Painter.
MonochromePaint(m, ss, done) ==
    LET c == monoCompact(ss, 1, m, <<>>)
        finalSpan == Span(c.m.y, c.m.x0, c.m.x1, Opaque)
    IN IF ~done THEN [m |-> c.m, calls |-> <<[ss |-> c.ss, done |-> FALSE]>>]
       ELSE IF Len(c.ss) < Len(ss)
       THEN [m |-> NewMonochromePainter,
             calls |-> <<[ss |-> Append(c.ss, finalSpan), done |-> TRUE]>>]
       ELSE [m |-> NewMonochromePainter,
             calls |-> <<[ss |-> c.ss, done |-> FALSE],
                         [ss |-> <<finalSpan>>, done |-> TRUE]>>]

\* SetGamma(2.0): g.a[i] = uint16(0xffff * (i/255)^2), which is the integer part
\* of 257 * i^2 / 255.
GammaTable(i) == (257 * i * i) \div 255

\* The alpha that GammaCorrectionPainter.Paint stores for the alpha a: with
\* M = 0x1010101 = 2^24 + 65793, p = a / M is the top byte b of a, or b - 1
\* when the low 24 bits are below 65793 * b; frac = (a % M) >> 9 (q in the source); the result is
\* the 16-bit interpolation of g.a[p] and g.a[p+1], in both halves.
gammaAlpha(a) ==
    LET b == a[1] \div 256
        low == (a[1] % 256) * 65536 + a[2]
        p == IF low >= 65793 * b THEN b ELSE b - 1
        frac == (IF low >= 65793 * b THEN low - 65793 * b
                 ELSE low + 16777216 + 65793 - 65793 * b) \div 512
        v == GammaTable(p) + ((GammaTable(p + 1) - GammaTable(p)) * frac + 16448) \div 32896
    IN IF a = <<0, 0>> \/ a = Opaque THEN a ELSE <<v, v>>

\* GammaCorrectionPainter.Paint(ss, done): the call of the wrapped Painter.
GammaCorrectionPaint(gammaIsOne, ss, done) ==
    <<[ss |-> IF gammaIsOne THEN ss
              ELSE [k \in 1 .. Len(ss) |-> [ss[k] EXCEPT !.A = gammaAlpha(@)]],
       done |-> done]>>

(***************************************************************************)
(* SpecPaint: a MonochromePainter or a GammaCorrectionPainter is given     *)
(* rasterizations: batches of spans with non-decreasing Y, the last batch  *)
(* of a rasterization with done.                                           *)
(***************************************************************************)
MaxSpans == 2

\* The spans of the batches, as the Rasterizer emits them: not empty and
\* inside a canvas of 2 x 2 pixels, with an opaque alpha and one below 1<<31.
PaintSpans ==
    {Span(y, x[1], x[2], a) : y \in 0 .. 1, x \in {<<0, 1>>, <<1, 2>>, <<0, 2>>},
                             a \in {Opaque, <<32767, 65535>>}}

\* The Y values of the spans of ss do not decrease, from the ones in from on.
Ascending(ss, from) ==
    /\ \A k \in 1 .. (Len(ss) - 1) : ss[k].Y <= ss[k + 1].Y
    /\ \A y \in from : \A k \in 1 .. Len(ss) : y <= ss[k].Y

\* The batches that continue a rasterization whose last span had a Y in from.
PaintBatches(from) ==
    {ss \in UNION {[1 .. n -> PaintSpans] : n \in 0 .. MaxSpans} : Ascending(ss, from)}

\* The Y of the last span of the batches in calls, or the one in from.
LastY(calls, from) ==
    LET ys == [k \in 1 .. Len(calls) |-> [i \in 1 .. Len(calls[k].ss) |-> calls[k].ss[i].Y]]
        all == Flatten(ys)
    IN IF all = <<>> THEN from ELSE {all[Len(all)]}

\* The painter under test after a Paint(ss, done) that made the calls out of
\* the wrapped Painter: the arguments, the calls, and the last Y given and
\* forwarded in the rasterization that is under way.
Painted(p, ss, done, out) ==
    [p EXCEPT !.in = <<[ss |-> ss, done |-> done]>>,
              !.out = out,
              !.inY = IF done THEN {} ELSE LastY(<<[ss |-> ss]>>, @),
              !.outY = IF done THEN {} ELSE LastY(out, @)]

NewPainter(kind) ==
    [kind |-> kind, m |-> NewMonochromePainter, gammaIsOne |-> TRUE,
     in |-> <<>>, out |-> <<>>, inY |-> {}, outY |-> {}]

\* m.Paint(ss, done) on the MonochromePainter.
MonoPaintCall(ss, done) ==
    /\ paint.kind = "mono"
    /\ \E r \in {MonochromePaint(paint.m, ss, done)} :
           paint' = Painted([paint EXCEPT !.m = r.m], ss, done, r.calls)
    /\ UNCHANGED <<face, glyphOut, ttf, parsed, query, gbuf, hinter, hint, raster, ctx>>

\* g.Paint(ss, done) on the GammaCorrectionPainter.
GammaPaintCall(ss, done) ==
    /\ paint.kind = "gamma"
    /\ paint' = Painted(paint, ss, done, GammaCorrectionPaint(paint.gammaIsOne, ss, done))
    /\ UNCHANGED <<face, glyphOut, ttf, parsed, query, gbuf, hinter, hint, raster, ctx>>

\* g.SetGamma(1.0) or g.SetGamma(2.0).
SetGamma(isOne) ==
    /\ paint.kind = "gamma"
    /\ paint' = [paint EXCEPT !.gammaIsOne = isOne]
    /\ UNCHANGED <<face, glyphOut, ttf, parsed, query, gbuf, hinter, hint, raster, ctx>>

InitPaint ==
    /\ FaceIdle /\ FontIdle /\ LoadIdle /\ RunIdle /\ DrawIdle /\ ContextIdle
    /\ paint \in {NewPainter("mono"), NewPainter("gamma")}

NextPaint ==
    \/ \E ss \in PaintBatches(paint.inY), done \in BOOLEAN : MonoPaintCall(ss, done)
    \/ \E ss \in PaintBatches(paint.inY), done \in BOOLEAN : GammaPaintCall(ss, done)
    \/ \E isOne \in BOOLEAN : SetGamma(isOne)

SpecPaint == InitPaint /\ [][NextPaint]_vars

(***************************************************************************)
(* face.drawContour (truetype/face.go): one closed contour of a glyph is   *)
(* turned into calls of the rasterizer.  A call is a record: Start(c) and  *)
(* Add1(c) carry their point in both b and c, Add2(b, c) has the control   *)
(* point b and the end point c.  A segment begins at the rasterizer's      *)
(* current point, which is the end point of the call before it.            *)
(***************************************************************************)
Point26_6(x, y) == [X |-> x, Y |-> y]

RStart(a) == [op |-> "Start", b |-> a, c |-> a]

RAdd1(a) == [op |-> "Add1", b |-> a, c |-> a]

RAdd2(a, b_) == [op |-> "Add2", b |-> a, c |-> b_]

\* A truetype.Point in fixed point units, positive Y going downwards, offset by (dx, dy).
Offset(p, dx, dy) == Point26_6(Add32(dx, p.X), Sub32(dy, p.Y))

MidPoint(a, b_) == Point26_6(GoDiv(Add32(a.X, b_.X), 2), GoDiv(Add32(a.Y, b_.Y), 2))

IsOn(p) == BitAnd(p.Flags, 1) # 0

\* The loop over others, then the closing segment.
RECURSIVE drawOthers(_, _, _, _, _, _, _)
drawOthers(others, dx, dy, start, q0, on0, calls) ==
    IF others = <<>>
    THEN Append(calls, IF on0 THEN RAdd1(start) ELSE RAdd2(q0, start))
    ELSE LET p == Head(others)
             q_ == Offset(p, dx, dy)
             on == IsOn(p)
             out == IF on
                    THEN Append(calls, IF on0 THEN RAdd1(q_) ELSE RAdd2(q0, q_))
                    ELSE IF on0 THEN calls ELSE Append(calls, RAdd2(q0, MidPoint(q0, q_)))
         IN drawOthers(Tail(others), dx, dy, start, q_, on, out)

\* The mutant's start of a contour whose first and last points are off the curve is the first
\* point and not the implicit point between the two.
drawStartNoMid(ps, dx, dy) ==
    LET first == Offset(ps[1], dx, dy)
        last == Offset(ps[Len(ps)], dx, dy)
    IN IF IsOn(ps[1]) THEN [start |-> first, others |-> Tail(ps)]
       ELSE IF IsOn(ps[Len(ps)]) THEN [start |-> last, others |-> SubSeq(ps, 1, Len(ps) - 1)]
       ELSE [start |-> first, others |-> ps]

\* The start point and the points that remain to be drawn.
drawStart(ps, dx, dy) ==
    LET first == Offset(ps[1], dx, dy)
        last == Offset(ps[Len(ps)], dx, dy)
    IN IF IsOn(ps[1]) THEN [start |-> first, others |-> Tail(ps)]
       ELSE IF IsOn(ps[Len(ps)]) THEN [start |-> last, others |-> SubSeq(ps, 1, Len(ps) - 1)]
       ELSE [start |-> MidPoint(first, last), others |-> ps]

\* The calls the rasterizer gets for the contour ps.
drawContour(ps, dx, dy) ==
    IF Len(ps) = 0 THEN <<>>
    ELSE LET s == drawStart(ps, dx, dy)
         IN drawOthers(s.others, dx, dy, s.start, s.start, TRUE, <<RStart(s.start)>>)

(***************************************************************************)
(* The specification of drawContour: one call with a contour of at most    *)
(* MaxContour of the points DrawUnits in any order, with every pattern of  *)
(* flags, at one of the offsets DrawOffsets.                               *)
(***************************************************************************)
MaxContour == 4

DrawUnits ==
    <<[X |-> -3, Y |-> 0], [X |-> 64, Y |-> -5], [X |-> 37, Y |-> 70], [X |-> -64, Y |-> -63]>>

\* The flags of a point: on or off the curve, with or without another bit of the flags set.
DrawFlags == {0, 1, 16, 17}

DrawOffsets == {<<0, 0>>, <<32, -7>>, <<-129, 64>>}

DrawOrders ==
    {o \in UNION {[1 .. n -> 1 .. Len(DrawUnits)] : n \in 0 .. MaxContour} :
        \A i, j \in DOMAIN o : i # j => o[i] # o[j]}

DrawFlagPatterns == UNION {[1 .. n -> DrawFlags] : n \in 0 .. MaxContour}

DrawContours ==
    {[i \in DOMAIN o |-> [X |-> DrawUnits[o[i]].X, Y |-> DrawUnits[o[i]].Y, Flags |-> f[i]]] :
        <<o, f>> \in {<<o, f>> \in DrawOrders \X DrawFlagPatterns : DOMAIN o = DOMAIN f}}

DrawCall(ps, d) ==
    /\ DrawIdle
    /\ raster' = [kind |-> "drawn", ps |-> ps, dx |-> d[1], dy |-> d[2],
                  calls |-> drawContour(ps, d[1], d[2])]
    /\ UNCHANGED <<face, glyphOut, ttf, parsed, query, gbuf, hinter, hint, paint, ctx>>

InitDraw == FaceIdle /\ FontIdle /\ LoadIdle /\ RunIdle /\ PaintIdle /\ DrawIdle /\ ContextIdle

NextDraw == \E ps \in DrawContours, d \in DrawOffsets : DrawCall(ps, d)

SpecDraw == InitDraw /\ [][NextDraw]_vars

(***************************************************************************)
(* freetype.Context (the freetype package): the glyph cache in front of    *)
(* rasterize.  A font is known by its number (SetFont compares pointers),  *)
(* the number 0 is the nil font.  Coordinates are raster.Fix32, 24.8 fixed *)
(* point.  A mask is known by its size and by what was drawn into it: the  *)
(* font, the glyph, the scale and the offset given to drawContour.  The    *)
(* cache array is kept as a function from the slots that hold a valid      *)
(* entry; a slot outside its domain is the zero cacheEntry.                *)
(***************************************************************************)
nGlyphs == 256

nXFractions == 4

nYFractions == 1

NilContextFont == 0

ContextFonts == {1, 2}

\* Font.UnitsPerEm() of the fonts.
CtxUnitsPerEm(f) == IF f = 1 THEN 2048 ELSE 0

\* The header of the glyph g of the font f, as GlyphBuf.load reads it: the number of contours
\* and the bounding box in FUnits.  Other glyphs of the fonts are empty.
CtxGlyphHeader(f, g) ==
    IF g = 1 THEN [ne |-> 1, B |-> [XMin |-> 10, YMin |-> -20, XMax |-> 120, YMax |-> 100]]
    ELSE IF g = 257 THEN [ne |-> 1, B |-> [XMin |-> -30, YMin |-> 0, XMax |-> 60, YMax |-> 65]]
    ELSE IF g = 2 /\ f = 1 THEN [ne |-> -2, B |-> [XMin |-> 0, YMin |-> 0, XMax |-> 8, YMax |-> 8]]
    ELSE IF g = 2 THEN [ne |-> 1, B |-> [XMin |-> 9, YMin |-> 9, XMax |-> 8, YMax |-> 8]]
    ELSE [ne |-> 0, B |-> [XMin |-> 0, YMin |-> 0, XMax |-> 0, YMax |-> 0]]

\* GlyphBuf.Load(font, glyph) of the Context's glyphBuf: the error and the bounding box.
CtxLoad(f, g) ==
    LET hd == CtxGlyphHeader(f, g)
    IN IF hd.ne < -1
       THEN [err |-> UnsupportedError("negative number of contours"), B |-> hd.B]
       ELSE [err |-> NoError, B |-> hd.B]

\* The scale of recalc for a font size that is a whole number of points.
CtxScale(fontSize, dpi, upe) == GoDiv(fontSize * dpi * 256 * 256, upe * 72)

NewContext ==
    [kind |-> "ctx", font |-> NilContextFont, fontSize |-> 12, dpi |-> 72, upe |-> 2048,
     scale |-> GoDiv(12 * 72 * 256 * 256, 2048 * 72), cache |-> <<>>,
     last |-> [op |-> "NewContext"]]

FUnitToFix32(c, x) == Shr(x * c.scale + 128, 8)

NilMask == [w |-> 0, h |-> 0, drawn |-> <<>>]

ZP == [X |-> 0, Y |-> 0]

PointAdd(a, b_) == [X |-> a.X + b_.X, Y |-> a.Y + b_.Y]

\* The glyph mask and integer-pixel offset to render the glyph at the sub-pixel offsets.
rasterize(c, g, fx, fy) ==
    LET ld == CtxLoad(c.font, g)
        xmin == Shr(fx + FUnitToFix32(c, ld.B.XMin), 8)
        ymin == Shr(fy + FUnitToFix32(c, -ld.B.YMax), 8)
        xmax == Shr(fx + FUnitToFix32(c, ld.B.XMax) + 255, 8)
        ymax == Shr(fy + FUnitToFix32(c, -ld.B.YMin) + 255, 8)
    IN IF ld.err # NoError THEN [mask |-> NilMask, offset |-> ZP, err |-> ld.err]
       ELSE IF xmin > xmax \/ ymin > ymax
       THEN [mask |-> NilMask, offset |-> ZP,
             err |-> [kind |-> "error", msg |-> "freetype: negative sized glyph"]]
       ELSE [mask |-> [w |-> xmax - xmin, h |-> ymax - ymin,
                       drawn |-> <<c.font, g, c.scale, fx - xmin * 256, fy - ymin * 256>>],
             offset |-> [X |-> xmin, Y |-> ymin], err |-> NoError]

\* The index into the cache array.
cacheIndex(g, fx, fy) ==
    LET tg == g % nGlyphs
        tx == GoDiv(fx, GoDiv(256, nXFractions))
        ty == GoDiv(fy, GoDiv(256, nYFractions))
    IN ((tg * nXFractions) + tx) * nYFractions + ty

\* A cache hit: the entry of the slot is valid and holds the glyph index.
cacheHit(c, t, g) == t \in DOMAIN c.cache /\ c.cache[t].glyph = g

\* Context.glyph: the Context after the call and what the call returns.
glyph(c, g, p) ==
    LET ix == Shr(p.X, 8)
        fx == p.X % 256
        iy == Shr(p.Y, 8)
        fy == p.Y % 256
        t == cacheIndex(g, fx, fy)
        r == rasterize(c, g, fx, fy)
    IN IF cacheHit(c, t, g)
       THEN [c |-> c, mask |-> c.cache[t].mask,
             offset |-> PointAdd(c.cache[t].offset, [X |-> ix, Y |-> iy]), err |-> NoError]
       ELSE IF r.err # NoError THEN [c |-> c, mask |-> NilMask, offset |-> ZP, err |-> r.err]
       ELSE [c |-> [c EXCEPT !.cache = (t :> [glyph |-> g, mask |-> r.mask, offset |-> r.offset])
                                           @@ c.cache],
             mask |-> r.mask, offset |-> PointAdd(r.offset, [X |-> ix, Y |-> iy]),
             err |-> NoError]

\* recalc: the scale from the font size, resolution and units per em, and an empty cache.
recalc(c) == [c EXCEPT !.scale = CtxScale(c.fontSize, c.dpi, c.upe), !.cache = <<>>]

SetDPI(c, dpi) == IF c.dpi = dpi THEN c ELSE recalc([c EXCEPT !.dpi = dpi])

SetFont(c, font) ==
    IF c.font = font THEN c
    ELSE recalc([c EXCEPT !.font = font,
                          !.upe = IF CtxUnitsPerEm(font) <= 0 THEN 1 ELSE CtxUnitsPerEm(font)])

SetFontSize(c, fontSize) ==
    IF c.fontSize = fontSize THEN c ELSE recalc([c EXCEPT !.fontSize = fontSize])

(***************************************************************************)
(* The specification of the Context: any sequence of SetFont, SetFontSize, *)
(* SetDPI and glyph calls.  glyph is called with a font set, as DrawString *)
(* calls it.  last records the call and, for glyph, what it returned.      *)
(***************************************************************************)
CtxGlyphs == {1, 2, 257}

CtxPositions == {[X |-> x, Y |-> y] : x \in {0, 300, -70}, y \in {0, 200}}

CtxFontSizes == {12, 3}

CtxDPIs == {72, 144}

CtxOthers == <<face, glyphOut, ttf, parsed, query, gbuf, hinter, hint, paint, raster>>

CtxSetFont(font) ==
    /\ ctx.kind = "ctx"
    /\ ctx' = [SetFont(ctx, font) EXCEPT !.last = [op |-> "SetFont"]]
    /\ UNCHANGED CtxOthers

CtxSetFontSize(fontSize) ==
    /\ ctx.kind = "ctx"
    /\ ctx' = [SetFontSize(ctx, fontSize) EXCEPT !.last = [op |-> "SetFontSize"]]
    /\ UNCHANGED CtxOthers

CtxSetDPI(dpi) ==
    /\ ctx.kind = "ctx"
    /\ ctx' = [SetDPI(ctx, dpi) EXCEPT !.last = [op |-> "SetDPI"]]
    /\ UNCHANGED CtxOthers

CtxGlyph(g, p) ==
    /\ ctx.kind = "ctx"
    /\ ctx.font # NilContextFont
    /\ LET r == glyph(ctx, g, p)
       IN ctx' = [r.c EXCEPT !.last = [op |-> "glyph", glyph |-> g, p |-> p,
                                       hit |-> r.c = ctx /\ r.err = NoError,
                                       mask |-> r.mask, offset |-> r.offset, err |-> r.err]]
    /\ UNCHANGED CtxOthers

InitContext ==
    /\ FaceIdle /\ FontIdle /\ LoadIdle /\ RunIdle /\ PaintIdle /\ DrawIdle
    /\ ctx = NewContext

NextContext ==
    \/ \E font \in ContextFonts : CtxSetFont(font)
    \/ \E fontSize \in CtxFontSizes : CtxSetFontSize(fontSize)
    \/ \E dpi \in CtxDPIs : CtxSetDPI(dpi)
    \/ \E g \in CtxGlyphs, p \in CtxPositions : CtxGlyph(g, p)

SpecContext == InitContext /\ [][NextContext]_vars

(***************************************************************************)
(* Claims about the table reader.                                          *)
(***************************************************************************)
\* C3: Parse returns either a non-nil Font with a nil error, or a nil Font with
\* a FormatError or an UnsupportedError; it never ends in an out-of-range read.
C3_ParseReturnsFontOrError ==
    parsed # ParsedIdle =>
        \/ parsed.err.kind = "nil" /\ ~parsed.isNil
        \/ parsed.err.kind \in {"FormatError", "UnsupportedError"} /\ parsed.isNil

\* The segments (1-based) of the font's cmap that contain the rune r.
SegmentsWith(f, r) == {i \in 1 .. Len(f.cm) : f.cm[i].start <= r /\ r <= f.cm[i].end}

\* C4: Index(r) is 0 unless r lies inside a cmap segment, which no rune above
\* U+FFFF does; inside a segment it is (r + delta) mod 65536 when the range
\* offset is 0 and the glyph index array's entry for r otherwise.
C4_IndexFollowsSegments ==
    query.kind = "Index" =>
        LET f == parsed.font
            r == query.x
            hits == SegmentsWith(f, r)
        IN /\ ~query.panic
           /\ IF hits = {} THEN query.index = 0
              ELSE LET i == CHOOSE k \in hits : \A j \in hits : k <= j
                       seg == f.cm[i]
                       at == seg.offset + 2 * ((i - 1) - Len(f.cm) + (r - seg.start))
                   IN IF seg.offset = 0 THEN query.index = (r + seg.delta) % 65536
                      ELSE CanRead(f.cmapIndexes, at, 2)
                               /\ query.index = U16At(f.cmapIndexes, at)

\* The number of kern pairs that the kern table holds in full.
StoredPairs(f) ==
    IF Len(f.kern) < 18 THEN 0 ELSE Min(f.nKern, (Len(f.kern) - 18) \div 6)

\* Whether the stored pairs are in increasing order of their 32-bit key.
PairsSorted(f) ==
    \A i, j \in 0 .. StoredPairs(f) - 1 :
        i < j => U32Less(U32At(f.kern, 18 + 6 * i), U32At(f.kern, 18 + 6 * j))

\* The answer of a linear scan of the stored pairs for the key (i0, i1).
LinearKerning(f, i0, i1) ==
    LET hits == {i \in 0 .. StoredPairs(f) - 1 :
                    U32At(f.kern, 18 + 6 * i) = [hi |-> i0, lo |-> i1]}
    IN IF hits = {} THEN 0
       ELSE Wrap16(U16At(f.kern, 22 + 6 * (CHOOSE i \in hits : TRUE)))

\* C5: on a parsed font whose kern pairs are sorted by key, Kerning(i0, i1)
\* reads only bytes of the kern table and returns what a linear scan returns.
C5_KerningEqualsLinearScan ==
    (query.kind = "Kerning" /\ PairsSorted(parsed.font)) =>
        ~query.panic /\ query.kern = LinearKerning(parsed.font, query.i0, query.i1)

(***************************************************************************)
(* Claims about the bytecode interpreter.                                  *)
(***************************************************************************)
\* C1: Hinter.run terminates: while it is in its loop it has dispatched fewer
\* than 100000 instructions, the iteration that reaches the budget returns
\* 'too many steps', a program of more than 50000 bytes is rejected before any
\* instruction is executed, and every run that is in its loop returns.
C1_RunTerminates ==
    /\ [](hint.status = "running" => hint.steps < maxSteps)
    /\ [](hint.steps >= maxSteps =>
            /\ hint.steps = maxSteps
            /\ hint.status = "returned"
            /\ hint.err = "truetype: hinting: too many steps")
    /\ [](Len(hint.program) > maxProgramLen =>
            /\ hint.status = "returned"
            /\ hint.err = "truetype: hinting: too many instructions"
            /\ hint.steps = 0)
    /\ (hint.status = "running" ~> hint.status = "returned")

\* A run of a looping program has used up its budget of steps.
C1_Witness ==
    /\ hint.status = "returned"
    /\ hint.steps = maxSteps
    /\ hint.err = "truetype: hinting: too many steps"

\* C2: during run 0 <= top <= len(stack) and no instruction touches a stack
\* slot outside [0, len(stack)): too few operands and a push beyond the
\* capacity end run with an error instead.
C2_StackWithinBounds ==
    hint.status \in {"running", "returned"} =>
        /\ 0 <= hint.top
        /\ hint.top <= Len(hint.stack)
        /\ hint.err # "panic: stack index out of range"

\* A push onto a full stack has been refused.
C2_Witness ==
    /\ hint.status = "returned"
    /\ hint.err = "truetype: hinting: stack overflow"
    /\ hint.top = Len(hint.stack)
    /\ Len(hint.stack) > 0

(***************************************************************************)
(* Claims about the glyph loader.                                          *)
(***************************************************************************)
\* C6: with a nil hinter, the B, Point and End that a successful Load leaves
\* are those that the same Load leaves in a fresh GlyphBuf, whatever the
\* GlyphBuf held before and however an earlier Load on it ended.
C6_NilHinterLoadIgnoresHistory ==
    (gbuf.status = "returned" /\ gbuf.err = NoError /\ ~gbuf.hinter) =>
        LET same(g) ==
                /\ g.err = NoError
                /\ gbuf.B = g.B
                /\ gbuf.Point = g.Point
                /\ gbuf.End = g.End
        IN same(LoadToEnd(LoadBegin(NewGlyphBuf, NewHinter, gbuf.font, gbuf.scale,
                                    gbuf.index, FALSE)).g)

\* A compound glyph has been loaded without a hinter into a GlyphBuf whose
\* earlier Load with the hinter had failed while hinting a compound glyph.
C6_Witness ==
    /\ gbuf.status = "returned"
    /\ gbuf.err = NoError
    /\ ~gbuf.hinter
    /\ Len(gbuf.End) > 1
    /\ Len(gbuf.tmp) > 0
    /\ hinter.err # ""

\* The number of contours of glyph i and of all its components, as the
\* 'glyf' table of f gives them.
RECURSIVE NumContours(_, _)
NumContours(f, i) ==
    LET RECURSIVE components(_, _)
        components(glyf, offset) ==
            LET c == component(glyf, offset)
            IN NumContours(f, c.component)
                   + IF And32(c.flags, flagMoreComponents) # 0 THEN components(glyf, c.offset)
                     ELSE 0
        contours(glyf) ==
            IF I16At(glyf, 0) >= 0 THEN I16At(glyf, 0) ELSE components(glyf, loadOffset)
        located(d) == IF d.kind = "ok" THEN contours(d.glyf) ELSE 0
    IN located(glyphData(f, i))

\* C7: after every successful Load, End has one entry per contour of the
\* glyph and of all its components, End is non-decreasing, its last entry
\* equals len(Point) (no points when there are no contours), and with a
\* hinter Unhinted and InFontUnits are as long as Point.
C7_EndDelimitsContours ==
    (gbuf.status = "returned" /\ gbuf.err = NoError) =>
        /\ Len(gbuf.End) = NumContours(gbuf.font, gbuf.index)
        /\ \A k \in 1 .. (Len(gbuf.End) - 1) : gbuf.End[k] <= gbuf.End[k + 1]
        /\ Len(gbuf.Point) = IF Len(gbuf.End) = 0 THEN 0 ELSE gbuf.End[Len(gbuf.End)]
        /\ gbuf.hinter =>
               /\ Len(gbuf.Unhinted) = Len(gbuf.Point)
               /\ Len(gbuf.InFontUnits) = Len(gbuf.Point)

\* C8: Load returns for every font: at most 32 calls of loadCompound wait for
\* a component, the call of load at depth 32 returns 'excessive compound
\* glyph recursion', an error stays the same until Load has returned it, and
\* every Load that was called returns.
C8_LoadTerminates ==
    /\ [](/\ Len(gbuf.frames) <= maxRecursion
          /\ gbuf.call.pending => gbuf.call.recursion <= maxRecursion)
    /\ [][(gbuf.call.pending /\ gbuf.call.recursion = maxRecursion) =>
              gbuf'.err = UnsupportedError("excessive compound glyph recursion")]_vars
    /\ [][(gbuf.status = "loading" /\ gbuf.err # NoError) =>
              /\ gbuf'.err = gbuf.err
              /\ gbuf'.status = "returned" \/ Len(gbuf'.frames) < Len(gbuf.frames)]_vars
    /\ (gbuf.status = "loading" ~> gbuf.status = "returned")

\* The Load of a compound glyph that contains itself has returned the error
\* of the call of load at depth 32.
C8_Witness ==
    /\ gbuf.status = "returned"
    /\ gbuf.index = 4
    /\ gbuf.font.id = 1
    /\ gbuf.err = UnsupportedError("excessive compound glyph recursion")

(***************************************************************************)
(* Claims about Hinter.init.                                               *)
(***************************************************************************)
\* store[k] of the Hinter h, 0 where the storage area has no such cell.
Mark(h, k) == IF k < Len(h.store) THEN h.store[k + 1] ELSE 0

\* The functions that program defines when it is run for the font f on a
\* Hinter without functions.
DefinedBy(f, program) ==
    DOMAIN run([NewHinter EXCEPT !.font = f, !.functionsNil = FALSE,
                                 !.stack = grown(@, f.maxStackElements, 256),
                                 !.store = grown(@, f.maxStorage, 16)],
               program, <<>>, <<>>, <<>>, <<>>).functions

\* An init call that returns nil after a call that returned nil, or the first
\* call: fpgm is executed exactly when the font differs from the one of the
\* call before, prep exactly when the font or the scale differs.
InitRunsPrograms ==
    (hint.err = "" /\ hint'.err = "") =>
        LET f == hint'.font
            fontChanged == hint.font.id # f.id
            rescale == fontChanged \/ hint.scale # hint'.scale
        IN /\ Len(f.fpgm) # 0 => (Mark(hint', 0) # Mark(hint, 0) <=> fontChanged)
           /\ Len(f.prep) # 0 => (Mark(hint', 1) # Mark(hint, 1) <=> rescale)

\* C11 as stated: in a sequence of successful init calls on one Hinter, fpgm is
\* executed exactly in the calls whose font differs from the font of the call
\* before, prep exactly in the calls whose font or scale differs, and after a
\* font change the function table holds only functions that the new font's
\* fpgm defines.
C11_InitAsStated ==
    [][/\ InitRunsPrograms
       /\ (hint.err = "" /\ hint'.err = "" /\ hint.font.id # hint'.font.id) =>
              DOMAIN hint'.functions \subseteq DefinedBy(hint'.font, hint'.font.fpgm)]_vars

\* C11, amended: in a sequence of successful init calls on one Hinter, fpgm is
\* executed exactly in the calls whose font differs from the font of the call
\* before, prep exactly in the calls whose font or scale differs, and after a
\* font change the function table holds exactly the functions that the new
\* font's fpgm and prep define.
C11_InitRunsFpgmAndPrep ==
    [][/\ InitRunsPrograms
       /\ (hint.err = "" /\ hint'.err = "" /\ hint.font.id # hint'.font.id) =>
              DOMAIN hint'.functions =
                  DefinedBy(hint'.font, hint'.font.fpgm)
                      \cup DefinedBy(hint'.font, hint'.font.prep)]_vars

\* The Hinter after an even number of font changes and an odd number of prep
\* runs, now initialised for the font 2, whose fpgm has defined function 2.
C11_Witness ==
    /\ hint.status = "ready" /\ hint.err = ""
    /\ hint.font.id = 2 /\ hint.scale = 768
    /\ Len(hint.store) = 16 /\ hint.store[1] = 0 /\ hint.store[2] = 1
    /\ DOMAIN hint.functions = {2}

\* The graphics state that init leaves as the default for the font and scale
\* of the Hinter h, when it runs prep; err is the error of that run.
PrepDefault(h) == initRescale([h EXCEPT !.status = "ready"], h.font, h.scale, TRUE)

\* C12: every glyph program run begins with the default graphics state, in which
\* the projection, freedom and dual vectors are the x axis, the reference
\* points are 0, the zone pointers are 1 and the loop counter is 1, and whose
\* other fields are those that the prep run for the current font and scale
\* left.
C12_RunBeginsAtPrepDefault ==
    (hint.status = "running" /\ hint.steps = 0) =>
        /\ hint.gs = hint.defaultGS
        /\ hint.gs.pv = <<16384, 0>> /\ hint.gs.fv = <<16384, 0>> /\ hint.gs.dv = <<16384, 0>>
        /\ hint.gs.rp = <<0, 0, 0>> /\ hint.gs.zp = <<1, 1, 1>> /\ hint.gs.loop = 1
        /\ PrepDefault(hint).err = ""
        /\ hint.gs = PrepDefault(hint).defaultGS

\* C17: after init has succeeded, the value stack has room for at least
\* max(maxStackElements, 800) entries and the storage area has at least
\* max(maxStorage, 32) cells, for every font, also one that declares 0.
C17_StackAndStoreMinimum ==
    (hint.status = "ready" /\ hint.err = "" /\ hint.font # NilFont) =>
        /\ Len(hint.stack) >= hint.font.maxStackElements /\ Len(hint.stack) >= 800
        /\ Len(hint.store) >= hint.font.maxStorage /\ Len(hint.store) >= 32

(***************************************************************************)
(* Claims about Hinter.round.                                              *)
(***************************************************************************)
\* r is the value that the rounding state selected by the instruction state
\* gives the 26.6 value v >= 0: v itself, the nearest multiple of 64 (ties up),
\* the nearest value 64k + 32, the nearest multiple of 32 (ties up), the largest
\* multiple of 64 that is not above v, the smallest one that is not below v.
\* The multiple is compared as a quotient, which is beyond every int32 r when
\* the rounded value is.
IsRounded(state, v, r) ==
    LET n == v \div 64
        m == v % 64
    IN CASE state = Op.ROFF -> r = v
         [] state = Op.RTG -> r % 64 = 0 /\ r \div 64 = n + (IF m >= 32 THEN 1 ELSE 0)
         [] state = Op.RTHG ->
                r % 64 = 32 /\ (r \div 64 = n \/ (m = 0 /\ r \div 64 = n - 1))
         [] state = Op.RTDG ->
                r % 32 = 0 /\ r \div 32 = v \div 32 + (IF v % 32 >= 16 THEN 1 ELSE 0)
         [] state = Op.RDTG -> r % 64 = 0 /\ r \div 64 = n
         [] state = Op.RUTG -> r % 64 = 0 /\ r \div 64 = n + (IF m > 0 THEN 1 ELSE 0)

\* The rounded value of v >= 0 is an int32.
RoundedFits(state, v) ==
    CASE state = Op.RTG -> v % 64 < 32 \/ v \div 64 < MaxInt32 \div 64
      [] state = Op.RUTG -> v % 64 = 0 \/ v \div 64 < MaxInt32 \div 64
      [] state = Op.RTDG -> v % 32 < 16 \/ v \div 32 < MaxInt32 \div 32
      [] OTHER -> TRUE

\* The loop of run is about to execute one of the four ROUND instructions.
AtRound ==
    /\ hint.status = "running" /\ hint.steps < maxSteps
    /\ hint.pc \in 0 .. (Len(hint.program) - 1)
    /\ hint.program[hint.pc + 1] \in Op.ROUND00 .. Op.ROUND11
    /\ hint.top > 0

\* What ROUND does with the operand v: r replaces it, for a negative v the
\* negation of the value for -v, and never of the opposite sign.
RoundResult(state, v, r) ==
    IF v >= 0 THEN r >= 0 /\ IsRounded(state, v, r)
    ELSE r <= 0 /\ r > MinInt32 /\ IsRounded(state, -v, -r)

\* C13 as stated: for every 26.6 value v >= 0, ROUND returns v after ROFF, the
\* nearest multiple of 64 (ties up) after RTG, the nearest 64k + 32 after RTHG,
\* the nearest multiple of 32 (ties up) after RTDG, the largest multiple of 64
\* not above v after RDTG and the smallest not below v after RUTG; for v < 0 the
\* negation of the result for -v, never of the opposite sign; the four ROUND
\* flavours give the same result.
C13_RoundAsStated ==
    [][AtRound =>
          /\ hint'.err = "" /\ hint'.top = hint.top
          /\ RoundResult(hint.program[1], hint.stack[hint.top], hint'.stack[hint.top])]_vars

\* C13, amended: the same for every v whose rounded value is an int32.
C13_RoundWithinInt32 ==
    [][(AtRound /\ RoundedFits(hint.program[1],
                               IF hint.stack[hint.top] < 0 THEN -hint.stack[hint.top]
                               ELSE hint.stack[hint.top])) =>
          /\ hint'.err = "" /\ hint'.top = hint.top
          /\ RoundResult(hint.program[1], hint.stack[hint.top], hint'.stack[hint.top])]_vars

\* ROUND10 after RUTG has returned -128 for -90 (-1.40625 rounded away from 0).
C13_Witness ==
    /\ hint.status = "returned" /\ hint.err = ""
    /\ hint.program = <<Op.RUTG, Op.PUSHW000, 255, 166, Op.ROUND10>>
    /\ hint.top = 1 /\ hint.stack[1] = -128

(***************************************************************************)
(* Claims about the instructions of run that move points.                  *)
(***************************************************************************)
\* The loop of run is about to execute an instruction.
AtInstruction ==
    /\ hint.status = "running" /\ hint.steps < maxSteps
    /\ hint.pc \in 0 .. (Len(hint.program) - 1)

\* The points that the instruction about to be executed refers to, as pairs of
\* the index of a zone pointer and a point number: its operands, and the
\* reference points that it reads.
PointRefs ==
    LET opcode == hint.program[hint.pc + 1]
        operand(k) == hint.stack[hint.top - k + 1]
        looped(zp) == {<<zp, operand(k)>> : k \in 1 .. hint.gs.loop}
    IN CASE opcode \in {Op.MDAP0, Op.MDAP1} -> {<<0, operand(1)>>}
         [] opcode \in {Op.MIAP0, Op.MIAP1} -> {<<0, operand(2)>>}
         [] opcode \in Op.MDRP00000 .. (Op.MDRP00000 + 31) ->
                {<<1, operand(1)>>, <<0, hint.gs.rp[1]>>}
         [] opcode \in Op.MIRP00000 .. (Op.MIRP00000 + 31) ->
                {<<1, operand(2)>>, <<0, hint.gs.rp[1]>>}
         [] opcode = Op.IP -> {<<0, hint.gs.rp[2]>>, <<1, hint.gs.rp[3]>>} \cup looped(2)
         [] opcode = Op.ALIGNRP -> {<<0, hint.gs.rp[1]>>} \cup looped(1)
         [] OTHER -> {}

\* The operands that the instruction about to be executed pops are on the
\* stack, and the zone pointers are 0 or 1.
PointInstructionReady ==
    LET opcode == hint.program[hint.pc + 1]
        pops == IF opcode \in {Op.IP, Op.ALIGNRP} THEN hint.gs.loop
                ELSE IF opcode \in {Op.MIAP0, Op.MIAP1} THEN 2
                ELSE IF opcode \in Op.MIRP00000 .. (Op.MIRP00000 + 31) THEN 2
                ELSE 1
    IN /\ pops \in 0 .. hint.top
       /\ \A k \in 1 .. 3 : hint.gs.zp[k] \in {twilightZone, glyphZone}

\* The zone that the zone pointer zp addresses has no point i.
NoSuchPoint(zp, i) ==
    i < 0 \/ i >= Len(hint.points[hint.gs.zp[zp + 1] + 1][current + 1])

\* C14: whenever MDAP, MIAP, MDRP, MIRP, IP or ALIGNRP refers to a point that
\* does not exist, as an operand or as one of the reference points, run returns
\* the error 'point out of range' without modifying any point, and never
\* panics.
C14_MissingPointIsAnError ==
    [][(/\ AtInstruction
        /\ PointInstructionReady
        /\ \E ref \in PointRefs : NoSuchPoint(ref[1], ref[2])) =>
          /\ hint'.status = "returned"
          /\ hint'.err = "truetype: hinting: point out of range"
          /\ hint'.points = hint.points]_vars

(***************************************************************************)
(* Claims about IF, ELSE and EIF.                                          *)
(***************************************************************************)
\* The IF, ELSE and EIF instructions of program from pc on are properly
\* nested inside the open IFs; open[k] tells whether the k-th open IF has had
\* its ELSE.  The bytes that a push instruction pushes are not instructions.
RECURSIVE ProperlyNested(_, _, _)
ProperlyNested(program, pc, open) ==
    LET opcode == At(program, pc)
        n == Len(open)
        after(r) == IF r.ok THEN ProperlyNested(program, r.pc + 1, open) ELSE n = 0
    IN IF pc >= Len(program) THEN n = 0
       ELSE IF opcode = Op.IF_ THEN ProperlyNested(program, pc + 1, Append(open, FALSE))
       ELSE IF opcode = Op.ELSE_
       THEN n > 0 /\ ~open[n]
                /\ ProperlyNested(program, pc + 1, [open EXCEPT ![n] = TRUE])
       ELSE IF opcode = Op.EIF
       THEN n > 0 /\ ProperlyNested(program, pc + 1, SubSeq(open, 1, n - 1))
       ELSE after(skipInstructionPayload(program, pc))

\* The pc of the instruction that ends the skipping which starts behind an IF
\* that popped zero (fromIf) or behind an executed ELSE: the first EIF from pc
\* on that closes no IF opened in between, or for fromIf the first ELSE outside
\* such an IF; -1 when the program has none.  depth counts the IFs opened in
\* between.
RECURSIVE Partner(_, _, _, _)
Partner(program, pc, depth, fromIf) ==
    LET opcode == At(program, pc)
        after(r) == IF r.ok THEN Partner(program, r.pc + 1, depth, fromIf) ELSE -1
    IN IF pc >= Len(program) THEN -1
       ELSE IF opcode = Op.IF_ THEN Partner(program, pc + 1, depth + 1, fromIf)
       ELSE IF opcode = Op.EIF
       THEN IF depth = 0 THEN pc ELSE Partner(program, pc + 1, depth - 1, fromIf)
       ELSE IF opcode = Op.ELSE_
       THEN IF depth = 0 /\ fromIf THEN pc ELSE Partner(program, pc + 1, depth, fromIf)
       ELSE after(skipInstructionPayload(program, pc))

\* The loop of run is about to execute an IF that pops zero.
AtFalseIf ==
    /\ AtInstruction /\ hint.program[hint.pc + 1] = Op.IF_
    /\ hint.top > 0 /\ hint.stack[hint.top] = 0

\* The loop of run is about to execute the instruction opcode.
AtOpcode(opcode) == AtInstruction /\ hint.program[hint.pc + 1] = opcode

Unbalanced == "truetype: hinting: unbalanced IF or ELSE"

\* C15: a program whose IF, ELSE and EIF instructions are not properly nested
\* (an IF without EIF, an ELSE or EIF without an open IF) never runs to a
\* successful completion, whatever the values of the IF conditions.
C15_AsStated ==
    (hint.status = "returned" /\ hint.err = "") => ProperlyNested(hint.program, 0, <<>>)

\* C15, amended: run returns 'unbalanced IF or ELSE' exactly when an IF pops
\* zero and no ELSE or EIF of its nesting depth follows it, or an ELSE is
\* executed and no EIF of its nesting depth follows it; an EIF that is executed
\* is a no-op, with or without an open IF.
C15_UnbalancedWhenSkippingFindsNoEnd ==
    [][/\ AtFalseIf =>
              (hint'.err = Unbalanced <=> Partner(hint.program, hint.pc + 1, 0, TRUE) = -1)
       /\ AtOpcode(Op.ELSE_) =>
              (hint'.err = Unbalanced <=> Partner(hint.program, hint.pc + 1, 0, FALSE) = -1)
       /\ AtOpcode(Op.EIF) =>
              hint' = [hint EXCEPT !.pc = @ + 1, !.steps = @ + 1]
       /\ hint'.err = Unbalanced => AtFalseIf \/ AtOpcode(Op.ELSE_)]_vars

\* run has returned 'unbalanced IF or ELSE' for an ELSE that no EIF follows.
C15_Witness ==
    /\ hint.status = "returned" /\ hint.err = Unbalanced
    /\ hint.program = <<Op.ELSE_, Op.PUSHB000, 1>> /\ hint.steps = 1 /\ hint.top = 0

(***************************************************************************)
(* Claims about the painters that wrap a Painter.                          *)
(***************************************************************************)
\* The step is a Paint call of the painter under test.
PaintStep == paint'.in # <<>> /\ paint'.gammaIsOne = paint.gammaIsOne

\* The spans of the calls that the last Paint call made, in their order.
Forwarded(p) == Flatten([k \in 1 .. Len(p.out) |-> p.out[k].ss])

\* C16: given a valid rasterization (batches without done and then one with
\* done, Y values that do not decrease, spans as the Rasterizer emits them,
\* inside the canvas), MonochromePainter and
\* GammaCorrectionPainter pass a valid rasterization on: done is passed exactly
\* once and in the last forwarded call, the Y values of the forwarded spans do
\* not decrease over the whole rasterization, and after the batch with done the
\* painter is like a new one.
C16_ForwardsValidRasterization ==
    [][PaintStep =>
          /\ \A k \in 1 .. Len(paint'.out) :
                 paint'.out[k].done <=> (paint'.in[1].done /\ k = Len(paint'.out))
          /\ paint'.in[1].done => Len(paint'.out) > 0
          /\ Ascending(Forwarded(paint'), paint.outY)
          /\ paint'.in[1].done => paint'.m = NewMonochromePainter]_vars

\* The MonochromePainter was given the last batch of a rasterization, two
\* opaque spans in the rows 0 and 1 that do not touch: it has passed on the
\* accumulator of a new painter and the span of row 0 without done, then the
\* span of row 1 with done, and is like a new one.
C16_Witness ==
    /\ paint.kind = "mono" /\ paint.m = NewMonochromePainter
    /\ paint.in = <<[ss |-> <<Span(0, 1, 2, Opaque), Span(1, 0, 1, Opaque)>>, done |-> TRUE]>>
    /\ paint.out = <<[ss |-> <<Span(0, 0, 0, Opaque), Span(0, 1, 2, Opaque)>>,
                      done |-> FALSE],
                     [ss |-> <<Span(1, 0, 1, Opaque)>>, done |-> TRUE]>>

\* The canvas of the final painter.
Canvas == [w |-> 2, h |-> 2]

\* The span is not empty and inside the canvas.
InCanvas(s) == 0 <= s.X0 /\ s.X0 < s.X1 /\ s.X1 <= Canvas.w /\ 0 <= s.Y /\ s.Y < Canvas.h

\* C18: every span that reaches the final painter is non-empty and inside the
\* canvas; whenever all spans given to the MonochromePainter are, every span
\* that it forwards is too, in every batch, the first one and the final flush
\* included.  The accumulator holds the spans given before, or is a new one.
C18_ForwardedSpansInCanvas ==
    [][(/\ PaintStep /\ paint.kind = "mono"
        /\ paint.m = NewMonochromePainter \/ InCanvas(Span(paint.m.y, paint.m.x0, paint.m.x1, 0))
        /\ \A k \in 1 .. Len(paint'.in[1].ss) : InCanvas(paint'.in[1].ss[k])) =>
          \A k \in 1 .. Len(Forwarded(paint')) : InCanvas(Forwarded(paint')[k])]_vars

\* C19: when IF pops zero, execution resumes right after the ELSE of this IF,
\* or right after its EIF if it has no ELSE; when an ELSE is executed, execution
\* resumes right after the matching EIF; an IF that pops another value goes on
\* with the next instruction.  Nested IF .. EIF blocks in the skipped region
\* are skipped as a whole, and the bytes that a push instruction in the skipped
\* region would push are never taken for IF, ELSE or EIF.
C19_SkippingResumesAfterPartner ==
    [][/\ (AtFalseIf /\ Partner(hint.program, hint.pc + 1, 0, TRUE) # -1) =>
              /\ hint'.status = "running" /\ hint'.err = ""
              /\ hint'.pc = Partner(hint.program, hint.pc + 1, 0, TRUE) + 1
              /\ hint'.top = hint.top - 1
       /\ (AtOpcode(Op.ELSE_) /\ Partner(hint.program, hint.pc + 1, 0, FALSE) # -1) =>
              /\ hint'.status = "running" /\ hint'.err = ""
              /\ hint'.pc = Partner(hint.program, hint.pc + 1, 0, FALSE) + 1
              /\ hint.program[hint'.pc] = Op.EIF
              /\ hint'.top = hint.top
       /\ (AtOpcode(Op.IF_) /\ hint.top > 0 /\ hint.stack[hint.top] # 0) =>
              hint'.pc = hint.pc + 1 /\ hint'.top = hint.top - 1]_vars

\* run has completed the program whose ELSE, reached after a true IF, skips a
\* nested IF .. EIF and a PUSHW with the bytes of EIF and ELSE: 7 and 10 are on
\* the stack, 8 and 9 are not.
C19_Witness ==
    /\ hint.status = "returned" /\ hint.err = ""
    /\ Len(hint.program) = 20 /\ hint.program[12] = Op.EIF /\ hint.program[13] = Op.PUSHW000
    /\ hint.top = 2 /\ hint.stack[1] = 7 /\ hint.stack[2] = 10

(***************************************************************************)
(* Claims about CALL, LOOPCALL and ENDF.                                   *)
(***************************************************************************)
\* The entry on top of the call stack.
TopEntry(h) == h.callStack[Len(h.callStack)]

\* The loop of run is about to execute CALL (count 1) or LOOPCALL (the count
\* is the second operand) of a function that is defined, with its operands on
\* the stack and room on the call stack.
AtCallOf(opcode, count) ==
    /\ AtOpcode(opcode) /\ Len(hint.callStack) < callStackSize
    /\ hint.top >= (IF opcode = Op.LOOPCALL THEN 2 ELSE 1)
    /\ hint.stack[hint.top] \in DOMAIN hint.functions
    /\ count = (IF opcode = Op.LOOPCALL THEN hint.stack[hint.top - 1] ELSE 1)

\* What a step of run does at CALL, LOOPCALL and ENDF.
CallStep ==
    /\ ((AtOpcode(Op.CALL) \/ AtOpcode(Op.LOOPCALL)) /\ Len(hint.callStack) = callStackSize)
           => hint'.status = "returned"
                  /\ hint'.err = "truetype: hinting: call stack overflow"
    /\ (AtOpcode(Op.ENDF) /\ Len(hint.callStack) = 0)
           => hint'.status = "returned"
                  /\ hint'.err = "truetype: hinting: call stack underflow"
    /\ (AtOpcode(Op.ENDF) /\ Len(hint.callStack) > 0)
           => IF TopEntry(hint).loopCount = 1
              THEN /\ hint'.callStack = SubSeq(hint.callStack, 1, Len(hint.callStack) - 1)
                   /\ hint'.program = TopEntry(hint).program
                   /\ hint'.pc = TopEntry(hint).pc + 1
                   /\ hint'.program[hint'.pc] \in {Op.CALL, Op.LOOPCALL}
              ELSE /\ Len(hint'.callStack) = Len(hint.callStack)
                   /\ TopEntry(hint').loopCount = TopEntry(hint).loopCount - 1
                   /\ hint'.program = hint.program /\ hint'.pc = 0
    /\ \A opcode \in {Op.CALL, Op.LOOPCALL} : \A count \in -1 .. 3 :
           AtCallOf(opcode, count)
               => IF count = 0
                  THEN /\ hint'.callStack = hint.callStack
                       /\ hint'.program = hint.program /\ hint'.pc = hint.pc + 1
                  ELSE /\ hint'.callStack =
                              Append(hint.callStack,
                                     [program |-> hint.program, pc |-> hint.pc,
                                      loopCount |-> count])
                       /\ hint'.program = hint.functions[hint.stack[hint.top]]
                       /\ hint'.pc = 0

\* C20: the depth of the call stack stays within 0 .. 32 throughout run: CALL
\* or LOOPCALL at depth 32 returns 'call stack overflow', ENDF at depth 0
\* returns 'call stack underflow'.  At the ENDF of a called function execution
\* resumes at the instruction after the CALL in the calling program, at the
\* caller's depth; LOOPCALL with the count n > 0 executes the function n times
\* before it resumes, with the count 0 not at all.
C20_CallStackDiscipline ==
    /\ [](Len(hint.callStack) \in 0 .. callStackSize)
    /\ [](\A n \in 0 .. 3 :
              (/\ hint.status = "returned" /\ hint.program = LoopcallProgram(n)
               /\ Len(hint.stack) > 3) =>
                  /\ hint.err = "" /\ hint.top = n + 1 /\ hint.callStack = <<>>
                  /\ \A k \in 1 .. n : hint.stack[k] = 9
                  /\ hint.stack[n + 1] = 4)
    /\ [][CallStep]_vars

\* run has completed the program that calls the function 3 times by LOOPCALL.
C20_Witness ==
    /\ hint.status = "returned" /\ hint.err = ""
    /\ hint.program = LoopcallProgram(3)
    /\ hint.top = 4 /\ hint.stack[3] = 9 /\ hint.stack[4] = 4

(***************************************************************************)
(* Claims about MDRP and MIRP.                                             *)
(***************************************************************************)
\* The loop of run is about to execute MDRP or MIRP.
AtMoveRelative ==
    /\ AtInstruction
    /\ hint.program[hint.pc + 1] \in Op.MDRP00000 .. (Op.MDRP00000 + 31)
           \cup Op.MIRP00000 .. (Op.MIRP00000 + 31)

\* The point number that the MDRP or MIRP about to be executed pops.
MovedPoint ==
    IF hint.program[hint.pc + 1] \in Op.MDRP00000 .. (Op.MDRP00000 + 31)
    THEN hint.stack[hint.top]
    ELSE hint.stack[hint.top - 1]

\* The step of run has executed its instruction and goes on with the next.
Executed == hint'.status = "running" /\ hint'.pc = hint.pc + 1

\* C21: after MDRP or MIRP has executed on the point i, rp[1] is what rp[0]
\* was before the instruction, rp[2] is i, and rp[0] is i when the set-rp0 bit
\* (0x10) of the opcode is set and is unchanged otherwise.
C21_ReferencePointsAfterMove ==
    [][(AtMoveRelative /\ Executed) =>
          /\ hint'.gs.rp[2] = hint.gs.rp[1]
          /\ hint'.gs.rp[3] = MovedPoint
          /\ hint'.gs.rp[1] = IF And32(hint.program[hint.pc + 1], 16) # 0 THEN MovedPoint
                              ELSE hint.gs.rp[1]]_vars

\* The loop of run is about to execute MIRP with its two operands on the
\* stack, the zone pointers zp[0] and zp[1] at the glyph zone, and the
\* projection, dual and freedom vectors all along the same axis.
AtMIRP ==
    /\ AtInstruction
    /\ hint.program[hint.pc + 1] \in Op.MIRP00000 .. (Op.MIRP00000 + 31)
    /\ hint.top >= 2
    /\ hint.gs.zp[1] = glyphZone /\ hint.gs.zp[2] = glyphZone
    /\ hint.gs.pv \in {<<16384, 0>>, <<0, 16384>>}
    /\ hint.gs.dv = hint.gs.pv /\ hint.gs.fv = hint.gs.pv

\* The distance that MIRP is to give the point i from rp[0]: the control value
\* c after the single-width test and the auto-flip when it is within the
\* control-value cut-in of the original distance, else the original
\* distance; rounded when bit 0x04 of the opcode is set and kept at the
\* minimum distance when bit 0x08 is set.
MirpTarget(h, opcode, i, c) ==
    LET unh == h.points[glyphZone + 1][unhinted + 1]
        oldDist == Distance(unh[i + 1], unh[h.gs.rp[1] + 1], h.gs.dv)
        snapped == singleWidthTest(h.gs, c)
        flipped == IF h.gs.autoFlip /\ ((oldDist < 0) # (snapped < 0)) THEN Neg32(snapped)
                   ELSE snapped
        target == IF Abs26(Sub32(flipped, oldDist)) <= h.gs.controlValueCutIn THEN flipped
                  ELSE oldDist
        rounded == IF And32(opcode, 4) # 0 THEN round(h.gs, target) ELSE target
    IN IF And32(opcode, 8) = 0 THEN rounded
       ELSE IF oldDist >= 0
       THEN IF rounded < h.gs.minDist THEN h.gs.minDist ELSE rounded
       ELSE IF rounded > Neg32(h.gs.minDist) THEN Neg32(h.gs.minDist) ELSE rounded

\* C22: MIRP moves the point i to the distance from rp[0] that the Control
\* Value Table gives: the control value, after the single-width test and the
\* auto-flip, is the target whenever it differs from the original distance by
\* no more than the control-value cut-in, and the rounding and the minimum
\* distance are applied to that target.
C22_MirpMovesToControlValue ==
    [][(AtMIRP /\ Executed /\ hint.stack[hint.top - 1] # hint.gs.rp[1]) =>
          LET i == hint.stack[hint.top - 1]
              cur == hint'.points[glyphZone + 1][current + 1]
          IN Distance(cur[i + 1], cur[hint.gs.rp[1] + 1], hint.gs.pv)
                 = MirpTarget(hint, hint.program[hint.pc + 1], i,
                              cvt(hint, hint.stack[hint.top]).v)]_vars

(***************************************************************************)
(* Claims about the Control Value Table.                                   *)
(***************************************************************************)
\* The indexes that cvt is asked for: those of the table, the indexes next to
\* it, and indexes whose double is beyond the int32 values.
CvtIndexes(n) == -2 .. (n + 2) \cup {1073741824, 1073741825, MinInt32, MaxInt32}

\* int16 of the big-endian 16 bits at the bytes 2i and 2i + 1 of the table,
\* scaled.
ControlValue(h, i) ==
    LET hi == h.font.cvt[2 * i + 1]
        lo == h.font.cvt[2 * i + 2]
        u == 256 * hi + lo
    IN FontScale(h.font, h.scale * (IF u >= 32768 THEN u - 65536 ELSE u))

\* The loop of run is about to execute MIAP or MIRP with its two operands on
\* the stack.
AtCvtInstruction ==
    /\ AtInstruction
    /\ hint.program[hint.pc + 1]
           \in {Op.MIAP0, Op.MIAP1} \cup Op.MIRP00000 .. (Op.MIRP00000 + 31)
    /\ hint.top >= 2
    /\ \A k \in 1 .. 3 : hint.gs.zp[k] \in {twilightZone, glyphZone}

\* C26: for a table of n entries (2n bytes) cvt(i) is the scaled signed
\* big-endian 16-bit value at the bytes 2i and 2i + 1 for 0 <= i < n, and is 0
\* without a read of the table for every other i, so that MIAP and MIRP never
\* read beyond the table.
C26_CvtReadsWithinTable ==
    /\ []((hint.font # NilFont /\ Len(hint.font.cvt) % 2 = 0) =>
              \A i \in CvtIndexes(Len(hint.font.cvt) \div 2) :
                  cvt(hint, i) = [panic |-> FALSE,
                                  v |-> IF i \in 0 .. (Len(hint.font.cvt) \div 2 - 1)
                                        THEN ControlValue(hint, i)
                                        ELSE 0])
    /\ [][(AtCvtInstruction /\ Len(hint.font.cvt) % 2 = 0) =>
              hint'.err # "panic: index out of range"]_vars

(***************************************************************************)
(* Claims about the zone pointers.                                         *)
(***************************************************************************)
\* C27: at every instruction boundary of run each of the zone pointers zp[0],
\* zp[1], zp[2] is 0 (the twilight zone) or 1 (the glyph zone), whatever a
\* program passes to SZP0, SZP1, SZP2 or SZPS, and no point lookup indexes
\* another zone.
C27_ZonePointersValid ==
    /\ hint.status = "running" =>
           \A k \in 1 .. 3 : hint.gs.zp[k] \in {twilightZone, glyphZone}
    /\ (hint.status = "returned" /\ hint.err = "panic: index out of range") =>
           \A k \in 1 .. 3 : hint.gs.zp[k] \in {twilightZone, glyphZone}

(***************************************************************************)
(* Claims about IUP.                                                       *)
(***************************************************************************)
\* The loop of run is about to execute IUP along the Y axis (IUP[0]) or the X
\* axis (IUP[1]).
AtIUP == AtInstruction /\ hint.program[hint.pc + 1] \in {Op.IUP0, Op.IUP1}

\* The contour of the glyph zone that the point i belongs to has a point that
\* is touched along the axis of mask; a point after the last contour end
\* belongs to no contour.
InTouchedContour(h, i, mask) ==
    \E k \in 1 .. Len(h.ends) :
        LET prevEnd == IF k = 1 THEN 0 ELSE h.ends[k - 1]
            n == Len(h.points[glyphZone + 1][current + 1])
        IN /\ prevEnd <= i /\ i < h.ends[k]
           /\ Touched(h.points[glyphZone + 1][current + 1], prevEnd,
                      IF h.ends[k] > n THEN n ELSE h.ends[k], mask) # {}

\* What a step of run at IUP leaves as it was.
IupFrame ==
    LET iupY == hint.program[hint.pc + 1] = Op.IUP0
        mask == IF iupY THEN flagTouchedY ELSE flagTouchedX
        cur == hint.points[glyphZone + 1][current + 1]
        new == hint'.points[glyphZone + 1][current + 1]
    IN /\ IF \E k \in 1 .. Len(hint.ends) : hint.ends[k] > Len(cur)
          THEN hint'.status = "returned" /\ hint'.err = "panic: index out of range"
          ELSE hint'.status = "running" /\ hint'.pc = hint.pc + 1
       /\ hint'.points[twilightZone + 1] = hint.points[twilightZone + 1]
       /\ hint'.points[glyphZone + 1][unhinted + 1] = hint.points[glyphZone + 1][unhinted + 1]
       /\ hint'.points[glyphZone + 1][inFontUnits + 1]
              = hint.points[glyphZone + 1][inFontUnits + 1]
       /\ Len(new) = Len(cur)
       /\ \A k \in 1 .. Len(cur) :
              /\ new[k].Flags = cur[k].Flags
              /\ Coord(new[k], ~iupY) = Coord(cur[k], ~iupY)
              /\ (And32(cur[k].Flags, mask) # 0 \/ ~InTouchedContour(hint, k - 1, mask))
                     => new[k] = cur[k]

\* C23: IUP along one axis changes only that coordinate of the glyph zone
\* points that are untouched along that axis: the coordinates of every point
\* touched along it, the other coordinate of every point, all flags, every
\* twilight point and every point of a contour without a touched point stay as
\* they were, for every layout of contours and every pattern of touched flags.
\* With an end of a contour beyond the points the step ends in the run-time
\* panic of the index, and the same holds of what it wrote before; otherwise
\* run goes on at the next instruction.
C23_IupFrame == [][AtIUP => IupFrame]_vars

\* IUP[1] has moved the untouched points 1 and 2 of the contour of the points
\* 0 .. 4, of which the points 0, 3 and 4 were touched along X: point 1, which
\* has the X of point 3, as point 3 was moved, and point 2 by interpolation.
C23_Witness ==
    LET cur == hint.points[glyphZone + 1][current + 1]
        unh == hint.points[glyphZone + 1][unhinted + 1]
    IN /\ hint.status = "returned" /\ hint.err = ""
       /\ hint.program = <<Op.IUP1>> /\ hint.ends = <<5>>
       /\ And32(cur[1].Flags, flagTouchedX) # 0 /\ And32(cur[4].Flags, flagTouchedX) # 0
       /\ And32(cur[5].Flags, flagTouchedX) # 0
       /\ And32(cur[2].Flags, flagTouchedX) = 0 /\ And32(cur[3].Flags, flagTouchedX) = 0
       /\ cur[2].X = unh[2].X + 128
       /\ cur[3].X # unh[3].X /\ cur[3].X # unh[3].X + 128
       /\ cur[3].Y = unh[3].Y

(***************************************************************************)
(* Claims about drawContour.                                               *)
(***************************************************************************)
Drawn == raster.kind = "drawn" /\ Len(raster.ps) >= 1

\* The point i (from 1) of the drawn contour as the rasterizer sees it.
DrawnPoint(i) == Offset(raster.ps[i], raster.dx, raster.dy)

\* The point after the point i, around the contour.
NextAround(i) == (i % Len(raster.ps)) + 1

\* The calls that are segments: every call but the first.
Segments == 2 .. Len(raster.calls)

\* C24: for every contour of length >= 1 and every pattern of flags, drawContour emits exactly
\* one Start, first, followed by Add1/Add2 calls, and the last of them ends at the Start point
\* (each segment begins at the end point of the call before it); every off-curve point is the
\* control point of exactly one Add2, every on-curve point is the end point of exactly one
\* segment, and the Add2 of an off-curve point whose successor around the contour is off the
\* curve too ends at their midpoint (coordinates halved with Go's integer division).
C24_DrawContourClosedChain ==
    Drawn =>
        /\ Len(raster.calls) >= 2
        /\ raster.calls[1].op = "Start"
        /\ \A k \in Segments : raster.calls[k].op \in {"Add1", "Add2"}
        /\ raster.calls[Len(raster.calls)].c = raster.calls[1].c
        /\ \A i \in DOMAIN raster.ps :
              IF IsOn(raster.ps[i])
              THEN Cardinality({k \in Segments : raster.calls[k].c = DrawnPoint(i)}) = 1
              ELSE /\ Cardinality({k \in Segments : /\ raster.calls[k].op = "Add2"
                                                    /\ raster.calls[k].b = DrawnPoint(i)}) = 1
                   /\ ~IsOn(raster.ps[NextAround(i)]) =>
                          \E k \in Segments :
                              /\ raster.calls[k] = RAdd2(DrawnPoint(i),
                                     MidPoint(DrawnPoint(i), DrawnPoint(NextAround(i))))
                              /\ raster.calls[IF k = Len(raster.calls) THEN 2 ELSE k + 1].b
                                     = DrawnPoint(NextAround(i))
        /\ Cardinality({k \in Segments : raster.calls[k].op = "Add2"})
               = Cardinality({i \in DOMAIN raster.ps : ~IsOn(raster.ps[i])})

\* A contour of four points is drawn whose first and last points are off the curve, with an
\* on-curve point between them, and whose implicit start has an odd negative coordinate sum.
C24_Witness ==
    /\ Drawn
    /\ Len(raster.ps) = 4
    /\ ~IsOn(raster.ps[1]) /\ ~IsOn(raster.ps[4]) /\ IsOn(raster.ps[2])
    /\ raster.calls[1].op = "Start"
    /\ (DrawnPoint(1).X + DrawnPoint(4).X) < 0 /\ (DrawnPoint(1).X + DrawnPoint(4).X) % 2 = 1
    /\ raster.calls[Len(raster.calls)] = RAdd2(DrawnPoint(4), raster.calls[1].c)

(***************************************************************************)
(* Claims about the glyph cache of the Context.                            *)
(***************************************************************************)
\* What rasterize returns now for the glyph and the fractional part of the position of the
\* last glyph call.
RasterizedNow == rasterize(ctx, ctx.last.glyph, ctx.last.p.X % 256, ctx.last.p.Y % 256)

GlyphReturned == ctx.kind = "ctx" /\ ctx.last.op = "glyph"

\* C25: after any sequence of glyph, SetFont, SetFontSize and SetDPI calls, what glyph(g, p)
\* returns is what rasterize(g, frac(p.X), frac(p.Y)) returns at that moment: the same error
\* and, without error, a mask of the same size and the offset shifted by the integer part of p.
C25_GlyphIsTransparentCache ==
    GlyphReturned =>
        /\ ctx.last.err = RasterizedNow.err
        /\ ctx.last.mask.w = RasterizedNow.mask.w
        /\ ctx.last.mask.h = RasterizedNow.mask.h
        /\ ctx.last.err = NoError =>
               ctx.last.offset = PointAdd(RasterizedNow.offset,
                   [X |-> Shr(ctx.last.p.X, 8), Y |-> Shr(ctx.last.p.Y, 8)])

(***************************************************************************)
(* Claims about the bounding box of a loaded glyph.                        *)
(***************************************************************************)
\* The bounding box in the header of the glyph data glyf, in font units.
HeaderBox(glyf) ==
    [XMin |-> I16At(glyf, 2), YMin |-> I16At(glyf, 4),
     XMax |-> I16At(glyf, 6), YMax |-> I16At(glyf, 8)]

InBox(p, b) == b.XMin <= p.X /\ p.X <= b.XMax /\ b.YMin <= p.Y /\ p.Y <= b.YMax

\* The outline of the simple glyph i of f in font units, as loadSimple decodes it.
RawOutline(f, i) ==
    loadSimple(NewGlyphBuf, glyphData(f, i).glyf, I16At(glyphData(f, i).glyf, 0))

\* The glyph i of f is a simple glyph whose header bounding box contains all its raw points.
SimpleGlyphInBox(f, i) ==
    /\ glyphData(f, i).kind = "ok"
    /\ InGlyf(glyphData(f, i).glyf, 0, loadOffset)
    /\ I16At(glyphData(f, i).glyf, 0) > 0
    /\ RawOutline(f, i).ok
    /\ \A k \in DOMAIN RawOutline(f, i).g.Point :
           InBox(RawOutline(f, i).g.Point[k], HeaderBox(glyphData(f, i).glyf))

\* C28: after a successful Load with a nil hinter of a simple glyph whose header bounding box
\* contains all its raw outline points, every point of Point lies inside B, also when the
\* left side bearing of the glyph differs from its xMin.
C28_PointsInsideBounds ==
    (/\ gbuf.status = "returned" /\ gbuf.err = NoError /\ ~gbuf.hinter
     /\ SimpleGlyphInBox(gbuf.font, gbuf.index)) =>
        \A k \in DOMAIN gbuf.Point : InBox(gbuf.Point[k], gbuf.B)

(***************************************************************************)
(* Claims about a failed Hinter.init.                                      *)
(***************************************************************************)
\* The step is the call h.init(f, scale) and it returns an error.
InitFails(f, scale) == hint' = init(hint, f, scale) /\ hint'.err # ""

\* C29: a failed init leaves no half-initialised state that a later call trusts: when
\* init(f, scale) returns an error from the fpgm or prep program, the next init with the same
\* font and scale does not return nil (the programs that fail here fail in every run, so a
\* call that runs the failed program again fails again), and after an init that returned nil
\* defaultGS is the state that the prep run for the font and scale of the Hinter leaves.
C29_FailedInitNotTrusted ==
    /\ [][\A f \in InitFonts, scale \in InitScales :
              InitFails(f, scale) => init(hint', f, scale).err # ""]_vars
    /\ [](hint.err = "" /\ hint.font # NilFont =>
              /\ PrepDefault(hint).err = ""
              /\ hint.defaultGS = PrepDefault(hint).defaultGS)

(***************************************************************************)
(* Claims about loading with a Hinter that was used before.                *)
(***************************************************************************)
\* The GlyphBuf after the Load of the GlyphBuf g, repeated on a new GlyphBuf with a new Hinter.
FreshLoad(g) == LoadToEnd(LoadBegin(NewGlyphBuf, NewHinter, g.font, g.scale, g.index, TRUE)).g

\* C30: hinted loading is repeatable: a successful Load with a Hinter leaves the Point, End
\* and B that the same Load leaves with a freshly created Hinter when it succeeds with that
\* one too, whatever was loaded with the Hinter before; storage cells that earlier program
\* runs wrote do not influence the result.
C30_HintedLoadRepeatable ==
    (/\ gbuf.status = "returned" /\ gbuf.err = NoError /\ gbuf.hinter
     /\ FreshLoad(gbuf).err = NoError) =>
        /\ gbuf.Point = FreshLoad(gbuf).Point
        /\ gbuf.End = FreshLoad(gbuf).End
        /\ gbuf.B = FreshLoad(gbuf).B

(***************************************************************************)
(* Claims about the Face facade.                                           *)
(***************************************************************************)
\* Whether v is the multiple of g nearest to d, a tie going up, as an int32.
NearestIs(d, g, v) ==
    LET r == d % g
    IN IF 2 * r >= g
       THEN (d - r) <= MaxInt32 - g /\ v = (d - r) + g
       ELSE v = d - r

\* The number of sub-pixel positions that Options asks for, per axis.
WantedSubPixelsX(o) == IF ~o.isNil /\ o.SubPixelsX \in ValidSubPixels THEN o.SubPixelsX ELSE 4

WantedSubPixelsY(o) == IF ~o.isNil /\ o.SubPixelsY \in ValidSubPixels THEN o.SubPixelsY ELSE 1

\* C9: a Face quantizes the vertical dot position by Options.SubPixelsY alone:
\* a valid SubPixelsY gives that many vertical positions, any other value one
\* position, whatever SubPixelsX is.  Stated for dots near the origin.
C9_VerticalQuantizationBySubPixelsY ==
    (glyphOut.done /\ glyphOut.dot.Y \in -(DotBound + 1) .. (DotBound + 1)) =>
        NearestIs(glyphOut.dot.Y, 64 \div WantedSubPixelsY(face.opts), glyphOut.dotY)

\* The quantization Glyph applies to X for a face made with SubPixelsX = q.
QuantizeX(d) == Quantize(d, face.subPixelBiasX, face.subPixelMaskX)

\* C10 as stated: for every q and every int32 coordinate d, the quantization
\* yields the nearest multiple of 64/q (ties up), is idempotent, monotone and
\* commutes with adding 64/q, and the fraction lies in [0, 64).
C10_QuantizeEveryCoordinate ==
    glyphOut.done =>
        LET sub == WantedSubPixelsX(face.opts)
            g == 64 \div sub
            d == glyphOut.dot.X
        IN /\ NearestIs(d, g, glyphOut.dotX)
           /\ QuantizeX(glyphOut.dotX) = glyphOut.dotX
           /\ d < MaxInt32 => QuantizeX(d) <= QuantizeX(d + 1)
           /\ d <= MaxInt32 - g =>
                  (QuantizeX(d) <= MaxInt32 - g /\ QuantizeX(d + g) = QuantizeX(d) + g)
           /\ glyphOut.fx \in 0 .. 63

\* C10 amended: the same for every d with d + 32/q <= 2^31 - 1, the range in
\* which the int32 addition of the bias does not wrap; the fraction lies in
\* [0, 64) for every d.
C10_QuantizeWithoutOverflow ==
    glyphOut.done =>
        LET sub == WantedSubPixelsX(face.opts)
            g == 64 \div sub
            b == 32 \div sub
            d == glyphOut.dot.X
        IN /\ d <= MaxInt32 - b =>
                  /\ NearestIs(d, g, glyphOut.dotX)
                  /\ QuantizeX(glyphOut.dotX) = glyphOut.dotX
           /\ d < MaxInt32 - b => QuantizeX(d) <= QuantizeX(d + 1)
           /\ d <= (MaxInt32 - b) - g =>
                  (QuantizeX(d) <= MaxInt32 - g /\ QuantizeX(d + g) = QuantizeX(d) + g)
           /\ glyphOut.fx \in 0 .. 63

\* C10 witness: a negative coordinate on a tie (q = 4, d = -56 is 8 above -64)
\* has been quantized upwards to -48.
C10_Witness ==
    /\ glyphOut.done
    /\ ~face.opts.isNil /\ face.opts.SubPixelsX = 4
    /\ glyphOut.dot.X = -56 /\ glyphOut.dotX = -48 /\ glyphOut.fx = 16

====
